---- MODULE Spec2Model ----
(***************************************************************************)
(* Verification model of the GNSS anomaly detection engine:                *)
(*   - the Anomaly Scorer   (src/src/detect_anomalies.py)                  *)
(*   - the Robust Validator (src/src/verify_mad.py)                        *)
(*   - the Decomposer       (src/src/preprocess.py, remove_physics)        *)
(*   - the Synchronizer     (src/src/preprocess.py, synchronize_and_clean) *)
(*   - the Normalizer       (src/src/preprocess.py, preprocess_all)        *)
(*   - the ActivityMask     (src/src/detect_anomalies.py, lines 79-83)     *)
(*   - the Synthetic Benchmark (src/src/benchmark_synthetic.py)            *)
(*   - the sensitivity sweep   (run_sensitivity_analysis)                  *)
(*   - an end-to-end run on a flat station (preprocess, score, validate)   *)
(*   - the orchestrator        (src/main.py)                               *)
(* Each component has its own specification over its own variables; the    *)
(* variables of the other components stay at their idle values.            *)
(*                                                                         *)
(* Numbers.  Physical values are exact integers (a fixed small unit);      *)
(* a missing cell (NaN) is the record NaN.  Ratios are kept as             *)
(* numerator/denominator pairs, and comparisons are cross-multiplied, so   *)
(* no rounding is introduced by the model.                                 *)
(***************************************************************************)
EXTENDS Integers, Sequences, FiniteSets, TLC

VARIABLES
    \* ---- Anomaly Scorer (detect_anomalies_per_station) ----
    dfCols,        \* columns of gnss_model_input.csv
    dfMM,          \* physical-unit cells: station -> day -> axis -> Cell
    pc,            \* position in detect_anomalies_per_station
    idx,           \* index of the current station in station_names
    anomaly,       \* final_results: label columns, station -> day -> {1,-1}
    models,        \* stations with a saved <station>_iforest.pkl
    trainRows,     \* station -> days of X_train the model was fitted on
    resultsFile,   \* gnss_anomalies.csv: [written, anomaly]
    raisedAt,      \* station whose iteration raised ("" when none)
    \* ---- Robust Validator (verify_results) ----
    vUp,           \* <station>_up column of the results file (Seq of Cell)
    vAi,           \* <station>_anomaly column of the results file
    vPc,           \* position in verify_results
    vScores,       \* mad_scores (Seq of score records)
    vMad,          \* mad_anomalies (Seq of BOOLEAN)
    vStatus,       \* status_list
    vSummary,      \* the row appended to summary_list
    \* ---- Decomposer (remove_physics, one axis) ----
    rIn,           \* df[col]: the axis as given (Seq of Cell)
    rFilled,       \* df_filled[col]
    rOut,          \* df_clean[col] as returned
    rLead,         \* number of valid samples (value 0) preceding rIn in the series
    rPc,           \* position in remove_physics
    rPath          \* which branch produced rOut

VARIABLES
    \* ---- Synchronizer (synchronize_and_clean, remove_physics per station) ----
    syIn,          \* dfs: station -> [obs, lead] (its dated rows)
    syPc,          \* position in synchronize_and_clean / remove_physics
    syStation,     \* index of the current station in the loop over dfs
    syAxis,        \* index of the current component in ['east','north','up']
    syClean,       \* df_clean of the running remove_physics call
    syLog,         \* lines printed by the except branch
    syReturned,    \* value the last remove_physics call returned
    syProcessed,   \* processed_dfs
    syCombined,    \* the frame returned by synchronize_and_clean
    \* ---- Normalizer (preprocess_all) ----
    nIn,           \* station_data: station -> its dated rows
    nPc,           \* position in preprocess_all
    nCombined,     \* combined: [calendar, cell: day -> station -> column -> Cell]
    nNorm,         \* norm_df: day -> station -> axis -> standardized value
    nFile,         \* gnss_model_input.csv: [written, cols, cell]
    \* ---- ActivityMask (detect_anomalies_per_station, lines 79-83) ----
    mCells,        \* the three physical-unit cells of a station on day 1
    mActive,       \* active_mask
    mPc,           \* "start" before the mask is computed, "done" after
    \* ---- Synthetic Benchmark (benchmark_synthetic.py, one trial) ----
    bLen,          \* DAYS: the length of the synthetic series
    bSlope,        \* ramp_slope, in tenths of a millimetre per day
    bClean,        \* df_clean, the frame handed to inject_anomalies
    bData,         \* df_dirty: day -> [flag, step, ramp, burst]: is_anomaly
                   \* and what was added to the signal (tenths of a millimetre)
    bPc,           \* position in calculate_recall_only
    bOverlap,      \* (df_dirty['is_anomaly'] & detected).sum()
    bRecall        \* the recall returned, in percent (a ratio)

VARIABLES
    \* ---- Sensitivity sweep (run_sensitivity_analysis) ----
    wIdx,          \* index of the current slope in slopes
    wRecalls,      \* recalls
    wPc,           \* position in run_sensitivity_analysis
    \* ---- End to end run on a flat station (main.py lines 47-64) ----
    fIn,           \* station_data: station -> its dated rows
    fPc,           \* the stage of main that returned last
    fFile,         \* gnss_model_input.csv: [written, calendar, cols, cell]
    fLabels,       \* station -> day -> <station>_anomaly in gnss_anomalies.csv
    fMad,          \* station -> day -> mad_anomalies
    \* ---- Orchestrator (main.py) ----
    mainPc,        \* "ready" between calls, "running" inside a stage,
                   \* "failed" / "interrupted" in a handler, "exited"
    mainStage,     \* index in StageOrder of the stage called next or running
    mainCalls,     \* the stages called so far, in call order
    mainReturned,  \* the stages that returned
    mainRaised,    \* the stage an exception left, "" when none
    mainFiles,     \* the files present under data/
    mainBanner,    \* the success banner was printed
    mainExit       \* exit status of the process, "none" while it runs

scorerVars == <<dfCols, dfMM, pc, idx, anomaly, models, trainRows, resultsFile, raisedAt>>
validatorVars == <<vUp, vAi, vPc, vScores, vMad, vStatus, vSummary>>
decomposerVars == <<rIn, rLead, rFilled, rOut, rPc, rPath>>
syncVars == <<syIn, syPc, syStation, syAxis, syClean, syLog, syReturned,
              syProcessed, syCombined>>
normVars == <<nIn, nPc, nCombined, nNorm, nFile>>
maskVars == <<mCells, mActive, mPc>>
benchVars == <<bLen, bSlope, bClean, bData, bPc, bOverlap, bRecall>>
sweepVars == <<wIdx, wRecalls, wPc>>
flatVars == <<fIn, fPc, fFile, fLabels, fMad>>
mainVars == <<mainPc, mainStage, mainCalls, mainReturned, mainRaised, mainFiles,
              mainBanner, mainExit>>
lateVars == <<sweepVars, flatVars, mainVars>>
extVars == <<syncVars, normVars, maskVars, benchVars, lateVars>>
vars == <<scorerVars, validatorVars, decomposerVars, extVars>>

SyncIdle ==
    /\ syIn = <<>> /\ syPc = "idle" /\ syStation = 0 /\ syAxis = 0
    /\ syClean = <<>> /\ syLog = <<>> /\ syReturned = <<>>
    /\ syProcessed = <<>> /\ syCombined = <<>>
NormIdle ==
    /\ nIn = <<>> /\ nPc = "idle" /\ nCombined = <<>> /\ nNorm = <<>>
    /\ nFile = [written |-> FALSE]
MaskIdle == mCells = <<>> /\ mActive = <<>> /\ mPc = "idle"
BenchIdle ==
    /\ bLen = 0 /\ bSlope = 0 /\ bClean = <<>> /\ bData = <<>> /\ bPc = "idle"
    /\ bOverlap = 0 /\ bRecall = <<>>
SweepIdle == wIdx = 0 /\ wRecalls = <<>> /\ wPc = "idle"
FlatIdle ==
    /\ fIn = <<>> /\ fPc = "idle" /\ fFile = [written |-> FALSE]
    /\ fLabels = <<>> /\ fMad = <<>>
MainIdle ==
    /\ mainPc = "idle" /\ mainStage = 0 /\ mainCalls = <<>> /\ mainReturned = {}
    /\ mainRaised = "" /\ mainFiles = {} /\ mainBanner = FALSE /\ mainExit = "none"
LateIdle == SweepIdle /\ FlatIdle /\ MainIdle
ExtIdle == SyncIdle /\ NormIdle /\ MaskIdle /\ BenchIdle /\ LateIdle

(***************************************************************************)
(* Cells                                                                   *)
(***************************************************************************)
NaN == [na |-> TRUE, n |-> 0, d |-> 1]
Val(x) == [na |-> FALSE, n |-> x, d |-> 1]
Rat(num, den) == [na |-> FALSE, n |-> num, d |-> den]
IsNaN(c) == c.na
Abs(x) == IF x < 0 THEN 0 - x ELSE x

RECURSIVE SumSeq(_)
SumSeq(s) == IF s = <<>> THEN 0 ELSE Head(s) + SumSeq(Tail(s))

RECURSIVE SetToSeq(_)
SetToSeq(S) ==
    IF S = {} THEN <<>>
    ELSE LET x == CHOOSE y \in S : TRUE IN <<x>> \o SetToSeq(S \ {x})

(***************************************************************************)
(* Bounds                                                                  *)
(***************************************************************************)
NDays == 3
MaxSeries == 3
MaxAxisLen == 8

(***************************************************************************)
(* Anomaly Scorer: detect_anomalies_per_station                            *)
(***************************************************************************)
Stations == {"S1", "S2"}
StationOrder == <<"S1", "S2">>      \* the order sorted() gives
Axes == <<"east", "north", "up">>
AxisSet == {Axes[i] : i \in 1..Len(Axes)}
Days == 1..NDays

\* Column names: <station>_<axis>_norm, <station>_<axis>, <station>_anomaly.
NormCol(s, a) == <<s, a, "norm">>
MMCol(s, a) == <<s, a, "mm">>
AllCols(s) == {NormCol(s, a) : a \in AxisSet} \cup {MMCol(s, a) : a \in AxisSet}

\* magnitude > 0.0001, in units of 0.00001 mm.
ActivityEps == 10

\* station_names = sorted({c.replace("_east_norm", "") ... if c.endswith("_east_norm")})
StationNames(cols) ==
    LET HasEastNorm(s) == NormCol(s, "east") \in cols
    IN SelectSeq(StationOrder, HasEastNorm)

\* train_cols and the test `all(c in df.columns for c in train_cols)`
TrainCols(s) == {NormCol(s, a) : a \in AxisSet}

\* The test reduced to the column the station was discovered by.
HasEastColOnly(cols, s) == NormCol(s, "east") \in cols
HasTrainCols(cols, s) == TrainCols(s) \subseteq cols

\* cols_mm = [c.replace("_norm", "") for c in train_cols]; df[cols_mm] raises
\* KeyError when one of them is not a column.
ColsMM(s) == {MMCol(s, a) : a \in AxisSet}
HasColsMM(cols, s) == ColsMM(s) \subseteq cols

\* The sum taken without .abs().
MagnitudeSigned(mm, s, d) ==
    SumSeq([i \in 1..Len(Axes) |->
        IF IsNaN(mm[s][d][Axes[i]]) THEN 0 ELSE mm[s][d][Axes[i]].n])
\* df[cols_mm].abs().sum(axis=1): a missing cell is skipped by sum (counts 0).
Magnitude(mm, s, d) ==
    SumSeq([i \in 1..Len(Axes) |->
        IF IsNaN(mm[s][d][Axes[i]]) THEN 0 ELSE Abs(mm[s][d][Axes[i]].n)])

\* active_mask = magnitude > 0.0001
ActiveMask(mm, s) == [d \in Days |-> Magnitude(mm, s, d) > ActivityEps]
ActiveDays(mm, s) == {d \in Days : ActiveMask(mm, s)[d]}

\* `if X_train.empty` with the test dropped: an empty training set goes on to the fit.
XTrainEmptyNever(mm, s) == FALSE

\* X_train = station_data[active_mask]; X_train.empty
XTrainEmpty(mm, s) == ActiveDays(mm, s) = {}

\* final_results.loc[active_mask, f"{station}_anomaly"] = preds, as a plausible
\* slip would do it: the model's output is written on every day of the calendar.
WritePredsAllDays(col, mask, preds) ==
    [d \in Days |-> IF mask[d] THEN preds[d] ELSE 0 - 1]

\* final_results.loc[active_mask, f"{station}_anomaly"] = preds
WritePreds(col, mask, preds) ==
    [d \in Days |-> IF mask[d] THEN preds[d] ELSE col[d]]

\* for station in station_names: final_results[f"{station}_anomaly"] = 1
InitLabels(names) ==
    [s \in {names[i] : i \in 1..Len(names)} |-> [d \in Days |-> 1]]

Names == StationNames(dfCols)
\* the loop variable stuck at the first station
CurrentFirst == Names[1]
\* for station in station_names
Current == Names[idx]
InLoop == pc = "loop" /\ idx <= Len(Names)

\* lines 41-58: read the input, find the stations, default every label to 1.
LoadInput ==
    /\ pc = "start"
    /\ pc' = "loop"
    /\ idx' = 1
    /\ anomaly' = InitLabels(Names)
    /\ UNCHANGED <<dfCols, dfMM, models, trainRows, resultsFile, raisedAt>>
    /\ UNCHANGED <<validatorVars, decomposerVars, extVars>>

\* lines 63-65: a required feature column is missing -> continue.
SkipMissingColumns ==
    /\ InLoop
    /\ ~HasTrainCols(dfCols, Current)
    /\ idx' = idx + 1
    /\ UNCHANGED <<dfCols, dfMM, pc, anomaly, models, trainRows, resultsFile, raisedAt>>
    /\ UNCHANGED <<validatorVars, decomposerVars, extVars>>

\* line 80: df[cols_mm] raises KeyError; nothing in the loop catches it.
RaiseKeyError ==
    /\ InLoop
    /\ HasTrainCols(dfCols, Current)
    /\ ~HasColsMM(dfCols, Current)
    /\ pc' = "raised"
    /\ raisedAt' = Current
    /\ UNCHANGED <<dfCols, dfMM, idx, anomaly, models, trainRows, resultsFile>>
    /\ UNCHANGED <<validatorVars, decomposerVars, extVars>>

\* lines 86-90: X_train is empty -> continue.
SkipNoActive ==
    /\ InLoop
    /\ HasTrainCols(dfCols, Current)
    /\ HasColsMM(dfCols, Current)
    /\ XTrainEmpty(dfMM, Current)
    /\ idx' = idx + 1
    /\ UNCHANGED <<dfCols, dfMM, pc, anomaly, models, trainRows, resultsFile, raisedAt>>
    /\ UNCHANGED <<validatorVars, decomposerVars, extVars>>

\* lines 93-116: fit_predict on the active rows (the forest's output is any
\* vector of 1/-1 over X_train), write the labels, save the model.
FitPredict ==
    /\ InLoop
    /\ HasTrainCols(dfCols, Current)
    /\ HasColsMM(dfCols, Current)
    /\ ~XTrainEmpty(dfMM, Current)
    /\ \E preds \in [ActiveDays(dfMM, Current) -> {1, 0 - 1}] :
          anomaly' = [anomaly EXCEPT
                        ![Current] = WritePreds(@, ActiveMask(dfMM, Current), preds)]
    /\ models' = models \cup {Current}
    /\ trainRows' = [trainRows EXCEPT ![Current] = ActiveDays(dfMM, Current)]
    /\ idx' = idx + 1
    /\ UNCHANGED <<dfCols, dfMM, pc, resultsFile, raisedAt>>
    /\ UNCHANGED <<validatorVars, decomposerVars, extVars>>

\* lines 101-108 when joblib.dump raises (the models directory cannot be
\* written): the labels are already in final_results, the exception leaves
\* the function.
DumpRaises ==
    /\ InLoop
    /\ HasTrainCols(dfCols, Current)
    /\ HasColsMM(dfCols, Current)
    /\ ~XTrainEmpty(dfMM, Current)
    /\ \E preds \in [ActiveDays(dfMM, Current) -> {1, 0 - 1}] :
          anomaly' = [anomaly EXCEPT
                        ![Current] = WritePreds(@, ActiveMask(dfMM, Current), preds)]
    /\ trainRows' = [trainRows EXCEPT ![Current] = ActiveDays(dfMM, Current)]
    /\ pc' = "raised"
    /\ raisedAt' = Current
    /\ UNCHANGED <<dfCols, dfMM, idx, models, resultsFile>>
    /\ UNCHANGED <<validatorVars, decomposerVars, extVars>>

\* lines 118-122: final_results.to_csv(RESULTS_FILE)
Export ==
    /\ pc = "loop"
    /\ idx > Len(Names)
    /\ resultsFile' = [written |-> TRUE, anomaly |-> anomaly]
    /\ pc' = "done"
    /\ UNCHANGED <<dfCols, dfMM, idx, anomaly, models, trainRows, raisedAt>>
    /\ UNCHANGED <<validatorVars, decomposerVars, extVars>>

\* main.py lines 85-87: the exception reaches main's handler, sys.exit(1).
MainExit ==
    /\ pc = "raised"
    /\ pc' = "exit1"
    /\ UNCHANGED <<dfCols, dfMM, idx, anomaly, models, trainRows, resultsFile, raisedAt>>
    /\ UNCHANGED <<validatorVars, decomposerVars, extVars>>

\* The input file as preprocess_all (or any other writer) may have left it:
\* per station all six columns, or all but one.
DayKinds == {"absent", "observed"}
DayCells(k) ==
    IF k = "absent"
    THEN [a \in AxisSet |-> NaN]
    ELSE [a \in AxisSet |-> IF a = "up" THEN Val(0 - 700) ELSE Val(300)]
ColumnDefects == {<<"none">>, <<"east", "norm">>, <<"north", "norm">>,
                  <<"up", "norm">>, <<"up", "mm">>}
ColsWithDefect(s, df) ==
    IF df = <<"none">> THEN AllCols(s) ELSE AllCols(s) \ {<<s, df[1], df[2]>>}

ValidatorIdle ==
    /\ vUp = <<>> /\ vAi = <<>> /\ vPc = "idle" /\ vScores = <<>>
    /\ vMad = <<>> /\ vStatus = <<>> /\ vSummary = <<>>
DecomposerIdle ==
    /\ rIn = <<>> /\ rLead = 0 /\ rFilled = <<>> /\ rOut = <<>>
    /\ rPc = "idle" /\ rPath = "none"
ScorerIdle ==
    /\ dfCols = {} /\ dfMM = <<>> /\ pc = "idle" /\ idx = 0 /\ anomaly = <<>>
    /\ models = {} /\ trainRows = <<>> /\ raisedAt = ""
    /\ resultsFile = [written |-> FALSE, anomaly |-> <<>>]

InitScorer ==
    /\ \E defect \in [Stations -> ColumnDefects] :
          dfCols = UNION {ColsWithDefect(s, defect[s]) : s \in Stations}
    /\ \E kind \in [Stations -> [Days -> DayKinds]] :
          dfMM = [s \in Stations |-> [d \in Days |-> DayCells(kind[s][d])]]
    /\ pc = "start"
    /\ idx = 0
    /\ anomaly = <<>>
    /\ models = {}
    /\ trainRows = [s \in Stations |-> {}]
    /\ resultsFile = [written |-> FALSE, anomaly |-> <<>>]
    /\ raisedAt = ""
    /\ ValidatorIdle
    /\ DecomposerIdle
    /\ ExtIdle

NextScorer ==
    \/ LoadInput
    \/ SkipMissingColumns
    \/ RaiseKeyError
    \/ SkipNoActive
    \/ FitPredict
    \/ DumpRaises
    \/ Export
    \/ MainExit

SpecScorer == InitScorer /\ [][NextScorer]_vars

(***************************************************************************)
(* Claims about the Anomaly Scorer (checked under SpecScorer)              *)
(***************************************************************************)
NameSet == {Names[i] : i \in 1..Len(Names)}
Pos(s) == CHOOSE i \in 1..Len(Names) : Names[i] = s
\* the loop has gone past station s
Passed(s) == s \in NameSet /\ pc \in {"loop", "done"} /\ idx > Pos(s)
\* s has its three feature columns, a computable mask and an active day
Eligible(s) ==
    /\ s \in NameSet
    /\ HasTrainCols(dfCols, s)
    /\ HasColsMM(dfCols, s)
    /\ ActiveDays(dfMM, s) # {}
\* s is a station of the batch with zero active days
EmptyStation(s) ==
    /\ s \in NameSet
    /\ HasTrainCols(dfCols, s)
    /\ HasColsMM(dfCols, s)
    /\ ActiveDays(dfMM, s) = {}
LacksFeature(s) == \E a \in AxisSet : NormCol(s, a) \notin dfCols
InactiveDay(s, d) == ~HasColsMM(dfCols, s) \/ ~ActiveMask(dfMM, s)[d]
LabelsOK(lab) ==
    \A s \in DOMAIN lab : \A d \in Days :
        /\ lab[s][d] \in {1, 0 - 1}
        /\ InactiveDay(s, d) => lab[s][d] = 1
\* once the loop is past an eligible station, it is fitted on its active rows
\* and its column holds the labels that the results file then carries
PassedAreScored ==
    \A s \in Stations : (Eligible(s) /\ Passed(s)) =>
        /\ s \in models
        /\ trainRows[s] = ActiveDays(dfMM, s)
        /\ pc = "done" => (s \in DOMAIN resultsFile.anomaly
                           /\ resultsFile.anomaly[s] = anomaly[s])

\* C1: every label is NORMAL (1) or ANOMALOUS (-1); on every day on which the
\* station is inactive the label is NORMAL, in final_results and in the
\* written results; a model is fitted on, and so predicts for, active days only.
C1_InactiveDaysNormal ==
    /\ LabelsOK(anomaly)
    /\ LabelsOK(resultsFile.anomaly)
    /\ \A s \in Stations : trainRows[s] \subseteq ActiveDays(dfMM, s)
C1_Witness ==
    /\ pc = "done"
    /\ \E s \in DOMAIN resultsFile.anomaly : \E d1, d2 \in Days :
          /\ ActiveMask(dfMM, s)[d1] /\ resultsFile.anomaly[s][d1] = 0 - 1
          /\ ~ActiveMask(dfMM, s)[d2] /\ resultsFile.anomaly[s][d2] = 1
          /\ s \in models

\* C2: a station with zero active days never raises and is never fitted, and
\* wherever it stands in the iteration order every station with its three
\* feature columns and an active day that the loop has passed is fitted and
\* labelled.
C2_EmptyStationSkipped ==
    /\ \A s \in Stations : EmptyStation(s) =>
          /\ raisedAt # s
          /\ s \notin models
          /\ trainRows[s] = {}
    /\ PassedAreScored
C2_Witness ==
    /\ pc = "done"
    /\ \E e, s \in Stations :
          /\ EmptyStation(e) /\ Eligible(s) /\ Pos(e) < Pos(s)
          /\ s \in models
          /\ \E d \in Days : resultsFile.anomaly[s][d] = 0 - 1

\* C3 (as claimed): when one station's iteration raises, the run still writes
\* the results with the labels of the stations already scored, and the
\* remaining stations are still scored.
C3_FailureIsolated ==
    pc = "exit1" =>
        /\ resultsFile.written
        /\ \A s \in models : s \in DOMAIN resultsFile.anomaly
                             /\ resultsFile.anomaly[s] = anomaly[s]
        /\ \A s \in Stations : (Eligible(s) /\ s # raisedAt) => s \in models

\* C4 (as claimed): a skipped station (a feature column missing, or zero
\* active days) has no label column in the written results.
Skipped(s) == LacksFeature(s) \/ EmptyStation(s)
C4_SkippedOmitted ==
    resultsFile.written =>
        \A s \in Stations : Skipped(s) => s \notin DOMAIN resultsFile.anomaly

\* C5: a station lacking any of its three normalized feature columns never
\* raises and is never fitted, whichever column is missing, and the stations
\* the loop has passed that have their columns and an active day are scored.
C5_MissingColumnSkipped ==
    /\ \A s \in Stations : LacksFeature(s) =>
          /\ raisedAt # s
          /\ s \notin models
          /\ trainRows[s] = {}
    /\ PassedAreScored
C5_Witness ==
    /\ pc = "done"
    /\ \E s1, s2 \in Stations :
          /\ NormCol(s1, "north") \notin dfCols \/ NormCol(s1, "up") \notin dfCols
          /\ Eligible(s2) /\ Pos(s1) < Pos(s2)
          /\ s2 \in models
          /\ s2 \in DOMAIN resultsFile.anomaly
          /\ \E d \in Days : resultsFile.anomaly[s2][d] = 0 - 1

(***************************************************************************)
(* Robust Validator: calculate_mad_zscore and verify_results               *)
(***************************************************************************)
\* 0.6745 = 1349/2000 and 3.5 = 7/2, as exact ratios in lowest terms
ZCoefNum == 1349
ZCoefDen == 2000
ThresholdNum == 7
ThresholdDen == 2

RECURSIVE Insert(_, _)
Insert(x, s) ==
    IF s = <<>> THEN <<x>>
    ELSE IF x <= Head(s) THEN <<x>> \o s
    ELSE <<Head(s)>> \o Insert(x, Tail(s))
RECURSIVE Sort(_)
Sort(s) == IF s = <<>> THEN <<>> ELSE Insert(Head(s), Sort(Tail(s)))

\* the non-missing values of a Series (median() skips NaN)
NonMissing(series) ==
    LET Present(c) == ~IsNaN(c)
        kept == SelectSeq(series, Present)
    IN [i \in 1..Len(kept) |-> kept[i].n]

\* Series.median() of a non-empty list, doubled: the middle value, or the mean
\* of the two middle values, of the sorted list.
Median2(vals) ==
    LET s == Sort(vals)
        n == Len(s)
    IN IF n % 2 = 1 THEN 2 * s[(n + 1) \div 2]
       ELSE s[n \div 2] + s[n \div 2 + 1]

\* deviations = np.abs(series - median), doubled, at the non-missing positions
Deviations2(vals) == [i \in 1..Len(vals) |-> Abs(2 * vals[i] - Median2(vals))]

\* mad_value = deviations.median(), times four
Mad4(vals) == Median2(Deviations2(vals))

\* the guard `if mad_value == 0` left out
MadIsZeroNever(m) == FALSE

\* if mad_value == 0
MadIsZero(m) == m = 0

\* calculate_mad_zscore: a Series of scores over the index of `series`.
\*   0.6745 * (x - median) / MAD = 0.6745 * 2 * (2x - 2 median) / (4 MAD)
calculate_mad_zscore(series) ==
    LET vals == NonMissing(series)
    IN IF vals = <<>>
       THEN [i \in 1..Len(series) |-> NaN]       \* median is NaN, NaN == 0 is False
       ELSE IF MadIsZero(Mad4(vals))
       THEN [i \in 1..Len(series) |-> Val(0)]    \* pd.Series(0, index=series.index)
       ELSE [i \in 1..Len(series) |->
               IF IsNaN(series[i]) THEN NaN
               ELSE Rat(ZCoefNum * 2 * (2 * series[i].n - Median2(vals)),
                        ZCoefDen * Mad4(vals))]

\* np.abs(score) >= 3.5
ExceedsThresholdInclusive(c) ==
    ~IsNaN(c) /\ Abs(c.n) * ThresholdDen >= ThresholdNum * c.d

\* np.abs(score) > 3.5 (False for NaN; a division by zero gives inf or NaN)
ExceedsThreshold(c) ==
    /\ ~IsNaN(c)
    /\ ~(c.d = 0 /\ c.n = 0)
    /\ Abs(c.n) * ThresholdDen > ThresholdNum * c.d

\* the if/elif chain with the two one-sided outcomes exchanged
StatusOfExchanged(ai, mad) ==
    IF ai /\ mad THEN "BOTH"
    ELSE IF ai /\ ~mad THEN "MAD_ONLY"
    ELSE IF ~ai /\ mad THEN "AI_ONLY"
    ELSE "OK"

\* lines 97-104: "POTWIERDZONA (Obie)", "Tylko AI", "Tylko Statystyka", "OK"
StatusOf(ai, mad) ==
    IF ai /\ mad THEN "BOTH"
    ELSE IF ai /\ ~mad THEN "AI_ONLY"
    ELSE IF ~ai /\ mad THEN "MAD_ONLY"
    ELSE "OK"

\* is_ai_anom = (ai_preds == -1)
IsAiAnom(ai) == [i \in 1..Len(ai) |-> ai[i] = 0 - 1]

\* Series.sum() of a boolean Series
CountTrue(b) == SumSeq([i \in 1..Len(b) |-> IF b[i] THEN 1 ELSE 0])

\* the union taken with & instead of |
UnionCountAsAnd(a, m) == CountTrue([i \in 1..Len(a) |-> a[i] /\ m[i]])

\* union = (is_ai_anom | is_mad_anom).sum()
UnionCount(a, m) == CountTrue([i \in 1..Len(a) |-> a[i] \/ m[i]])

\* count_both = (is_ai_anom & is_mad_anom).sum()
BothCount(a, m) == CountTrue([i \in 1..Len(a) |-> a[i] /\ m[i]])

\* f"{x:.1f}" of x = num / den * 100, in tenths of a percent: the nearest
\* tenth, a tie going to the even digit.
FormatTenths(num, den) ==
    LET q == (1000 * num) \div den
        r == (1000 * num) % den
    IN IF 2 * r < den THEN q
       ELSE IF 2 * r > den THEN q + 1
       ELSE IF q % 2 = 0 THEN q ELSE q + 1

\* similarity = (count_both / union * 100) if union > 0 else 0.0
Similarity(both, union) == IF union > 0 THEN FormatTenths(both, union) ELSE 0

\* lines 127-136: the row of summary_list
SummaryRow(up, a, m) ==
    [days |-> Len(up),
     ai |-> CountTrue(a),
     mad |-> CountTrue(m),
     both |-> BothCount(a, m),
     onlyAi |-> CountTrue(a) - BothCount(a, m),
     onlyMad |-> CountTrue(m) - BothCount(a, m),
     similarity |-> Similarity(BothCount(a, m), UnionCount(a, m))]

\* lines 82-88: mad_scores, mad_anomalies
ComputeMad ==
    /\ vPc = "start"
    /\ vScores' = calculate_mad_zscore(vUp)
    /\ vMad' = [i \in 1..Len(vUp) |-> ExceedsThreshold(calculate_mad_zscore(vUp)[i])]
    /\ vPc' = "scored"
    /\ UNCHANGED <<vUp, vAi, vStatus, vSummary>>
    /\ UNCHANGED <<scorerVars, decomposerVars, extVars>>

\* The classification with a veto written back: a label the MAD test does
\* not confirm is reset to 1 in the results column.
ClassifyWithVeto ==
    /\ vPc = "scored"
    /\ vStatus' = [i \in 1..Len(vAi) |-> StatusOf(IsAiAnom(vAi)[i], vMad[i])]
    /\ vAi' = [i \in 1..Len(vAi) |-> IF vMad[i] THEN vAi[i] ELSE 1]
    /\ vPc' = "classified"
    /\ UNCHANGED <<vUp, vScores, vMad, vSummary>>
    /\ UNCHANGED <<scorerVars, decomposerVars, extVars>>

\* lines 91-104: status_list, one entry per pair of zip(is_ai_anom, is_mad_anom)
Classify ==
    /\ vPc = "scored"
    /\ vStatus' = [i \in 1..Len(vAi) |-> StatusOf(IsAiAnom(vAi)[i], vMad[i])]
    /\ vPc' = "classified"
    /\ UNCHANGED <<vUp, vAi, vScores, vMad, vSummary>>
    /\ UNCHANGED <<scorerVars, decomposerVars, extVars>>

\* lines 118-136: the aggregate statistics of the station
Summarise ==
    /\ vPc = "classified"
    /\ vSummary' = <<SummaryRow(vUp, IsAiAnom(vAi), vMad)>>
    /\ vPc' = "done"
    /\ UNCHANGED <<vUp, vAi, vScores, vMad, vStatus>>
    /\ UNCHANGED <<scorerVars, decomposerVars, extVars>>

\* One station of the results file: its <station>_up column (physical values
\* or NaN) and its <station>_anomaly column, over the same calendar.
UpValues == {0 - 1349, 0, 7000, 7001}
UpCells == {NaN} \cup {Val(x) : x \in UpValues}
SeqsOf(S, n) == [1..n -> S]

InitValidator ==
    /\ \E n \in 1..MaxSeries :
          /\ vUp \in SeqsOf(UpCells, n)
          /\ vAi \in SeqsOf({1, 0 - 1}, n)
    /\ vPc = "start"
    /\ vScores = <<>>
    /\ vMad = <<>>
    /\ vStatus = <<>>
    /\ vSummary = <<>>
    /\ ScorerIdle
    /\ DecomposerIdle
    /\ ExtIdle

NextValidator ==
    \/ ComputeMad
    \/ Classify
    \/ Summarise

SpecValidator == InitValidator /\ [][NextValidator]_vars

(***************************************************************************)
(* Claims about the Robust Validator (checked under SpecValidator)         *)
(***************************************************************************)
VDays == 1..Len(vUp)
VPresent == {i \in VDays : ~IsNaN(vUp[i])}
\* k-th smallest value of f over the index set P, by counting
KthSmallest(f, P, k) ==
    CHOOSE v \in {f[i] : i \in P} :
        /\ Cardinality({i \in P : f[i] < v}) < k
        /\ Cardinality({i \in P : f[i] <= v}) >= k
\* twice the median of f over P
RefMedian2(f, P) ==
    LET n == Cardinality(P)
    IN IF n % 2 = 1 THEN 2 * KthSmallest(f, P, (n + 1) \div 2)
       ELSE KthSmallest(f, P, n \div 2) + KthSmallest(f, P, n \div 2 + 1)
VUpValue == [i \in VPresent |-> vUp[i].n]
\* 2 |x - median| over the non-missing days, and 4 MAD
VDev2 == [i \in VPresent |-> Abs(2 * VUpValue[i] - RefMedian2(VUpValue, VPresent))]
VMad4 == RefMedian2(VDev2, VPresent)
VConstant == \A i, j \in VPresent : vUp[i].n = vUp[j].n
VModelAnom(i) == vAi[i] = 0 - 1

\* C6: every day of the station gets exactly one of the four categories, and
\* the category is the one the pair (label is ANOMALOUS, MAD flag) selects;
\* there are as many classified days as days.
C6_FourWayClassification ==
    vPc \in {"classified", "done"} =>
        /\ Len(vStatus) = Len(vUp)
        /\ \A i \in VDays :
              /\ vStatus[i] \in {"BOTH", "AI_ONLY", "MAD_ONLY", "OK"}
              /\ (vStatus[i] = "BOTH") <=> (VModelAnom(i) /\ vMad[i])
              /\ (vStatus[i] = "AI_ONLY") <=> (VModelAnom(i) /\ ~vMad[i])
              /\ (vStatus[i] = "MAD_ONLY") <=> (~VModelAnom(i) /\ vMad[i])
              /\ (vStatus[i] = "OK") <=> (~VModelAnom(i) /\ ~vMad[i])
C6_Witness ==
    /\ vPc = "classified"
    /\ \E i, j, k \in VDays :
          vStatus[i] = "AI_ONLY" /\ vStatus[j] = "MAD_ONLY" /\ vStatus[k] = "OK"

\* C7: the station's aggregate row agrees with the per-day sets: confirmed is
\* the size of the intersection, the one-sided counts are the differences and
\* are not negative, the three add up to the size of the union, which is at
\* most the number of days, and the similarity is confirmed/union as a
\* percentage (to the printed tenth) within [0, 100], 0 for an empty union.
VBothSet == {i \in VDays : VModelAnom(i) /\ vMad[i]}
VUnionSet == {i \in VDays : VModelAnom(i) \/ vMad[i]}
C7_AggregatesConsistent ==
    vPc = "done" =>
        LET row == vSummary[1]
            u == Cardinality(VUnionSet)
        IN /\ row.days = Len(vUp)
           /\ row.both = Cardinality(VBothSet)
           /\ row.ai = Cardinality({i \in VDays : VModelAnom(i)})
           /\ row.mad = Cardinality({i \in VDays : vMad[i]})
           /\ row.onlyAi = row.ai - row.both /\ row.onlyAi >= 0
           /\ row.onlyMad = row.mad - row.both /\ row.onlyMad >= 0
           /\ row.both + row.onlyAi + row.onlyMad = u
           /\ u <= row.days
           /\ row.similarity >= 0 /\ row.similarity <= 1000
           /\ u = 0 => row.similarity = 0
           /\ u > 0 => 2 * Abs(row.similarity * u - 1000 * row.both) <= u
C7_Witness ==
    /\ vPc = "done"
    /\ vSummary[1].both = 1
    /\ vSummary[1].onlyAi = 1
    /\ vSummary[1].similarity = 500

\* C8: whenever the MAD of the series is 0, and so for every constant series,
\* every score is 0 and no day is flagged; no score is a quotient by zero.
C8_ZeroMadAllZero ==
    vPc # "start" =>
        /\ \A i \in VDays : vScores[i].d # 0
        /\ (VPresent # {} /\ (VMad4 = 0 \/ VConstant)) =>
              \A i \in VDays : vScores[i] = Val(0) /\ ~vMad[i]
C8_Witness ==
    /\ vPc = "scored"
    /\ Cardinality(VPresent) >= 2
    /\ VConstant
    /\ \E i \in VPresent : vUp[i].n # 0
    /\ \A i \in VDays : vScores[i] = Val(0) /\ ~vMad[i]

\* C9: when MAD > 0, a day is flagged exactly when its value is not missing
\* and 0.6745 |x - median| > 3.5 MAD, median and MAD taken over the
\* non-missing values; equality (a score of exactly 3.5) does not flag.
\*   0.6745 |x - median| > 3.5 MAD  <=>  6745 * 2 * (2|x - median|) > 35000 * (4 MAD)
C9_StrictThreshold ==
    (vPc # "start" /\ VPresent # {} /\ VMad4 > 0) =>
        \A i \in VDays :
            vMad[i] <=> (i \in VPresent /\ 6745 * 2 * VDev2[i] > 35000 * VMad4)
C9_Witness ==
    /\ vPc = "scored"
    /\ VPresent # {}
    /\ VMad4 > 0
    /\ \E i \in VPresent : 6745 * 2 * VDev2[i] = 35000 * VMad4 /\ ~vMad[i]

(***************************************************************************)
(* Decomposer: remove_physics on one axis of one station                   *)
(*                                                                         *)
(* The series of the axis is rLead valid samples of value 0 followed by    *)
(* the samples of rIn; only rIn is kept position by position.  pandas      *)
(* fills position i from the valid samples next to it and the `limit`      *)
(* positions before it, so the leading samples act on rIn only through     *)
(* the last of them.                                                       *)
(***************************************************************************)
InterpLimit == 5        \* interpolate(method='linear', limit=5)
Period == 365           \* seasonal_decompose(period=365)
MinDetrendLen == 10     \* if len(vals) > 10

RECURSIVE GCD(_, _)
GCD(a, b) == IF b = 0 THEN a ELSE GCD(b, a % b)
LCM(a, b) == (a * b) \div GCD(a, b)
\* a ratio in lowest terms, as a cell
Ratio(num, den) ==
    LET g == GCD(Abs(num), den)
    IN Rat(num \div g, den \div g)

ValidBefore(s, i) == {j \in 1..(i - 1) : ~IsNaN(s[j])}
ValidAfter(s, i) == {j \in (i + 1)..Len(s) : ~IsNaN(s[j])}
Max(S) == CHOOSE x \in S : \A y \in S : y <= x
Min(S) == CHOOSE x \in S : \A y \in S : x <= y

\* np.interp at position i of a missing sample: the line through the valid
\* neighbours, or the last valid value where there is no valid sample after i
InterpAt(s, i) ==
    LET p == Max(ValidBefore(s, i))
    IN IF ValidAfter(s, i) = {} THEN s[p]
       ELSE LET j == Min(ValidAfter(s, i))
            IN Ratio(s[p].n * (j - i) + s[j].n * (i - p), j - p)

\* pandas _interp_limit, forward: a missing sample is filled when a valid
\* sample lies among the `limit` positions before it (the samples before the
\* first valid one are never filled)
Fills(s, i, limit) ==
    /\ ValidBefore(s, i) # {}
    /\ i - Max(ValidBefore(s, i)) <= limit

\* Series.interpolate(method='linear', limit=limit)
Interpolate(s, limit) ==
    [i \in 1..Len(s) |->
        IF ~IsNaN(s[i]) THEN s[i]
        ELSE IF Fills(s, i, limit) THEN InterpAt(s, i)
        ELSE NaN]

\* df_filled[col] on the positions of rIn
Filled(lead, s, limit) ==
    IF lead = 0 THEN Interpolate(s, limit)
    ELSE Tail(Interpolate(<<Val(0)>> \o s, limit))

\* len(df_filled[col].dropna())
CountValid(s) == Cardinality({i \in 1..Len(s) : ~IsNaN(s[i])})
NObs(lead, filled) == lead + CountValid(filled)

\* seasonal_decompose raises ValueError unless x has two complete cycles
DecomposeFeasible(nobs) == nobs >= 2 * Period

\* a residual of the seasonal decomposition (its value is not modelled)
SeasonalResid == [na |-> FALSE, n |-> 0, d |-> 1, seasonal |-> TRUE]

\* res.resid.reindex(df_clean.index)
SeasonalOut(filled) ==
    [i \in 1..Len(filled) |-> IF IsNaN(filled[i]) THEN NaN ELSE SeasonalResid]

\* vals - np.poly1d(np.polyfit(range(len(vals)), vals, 1))(range(len(vals))),
\* exactly: x runs over 0..N-1, the first `lead` values are 0, the others are
\* the valid samples of `filled` in order.
RankIn(filled, i) == Cardinality({j \in 1..i : ~IsNaN(filled[j])})
RECURSIVE LcmDen(_)
LcmDen(s) ==
    IF s = <<>> THEN 1
    ELSE IF IsNaN(Head(s)) THEN LcmDen(Tail(s))
    ELSE LCM(Head(s).d, LcmDen(Tail(s)))
DetrendAt(lead, filled, i) ==
    LET N == lead + CountValid(filled)
        L == LcmDen(filled)
        V == {j \in 1..Len(filled) : ~IsNaN(filled[j])}
        X(j) == lead + RankIn(filled, j) - 1
        Y(j) == filled[j].n * (L \div filled[j].d)
        Sx == (N * (N - 1)) \div 2
        Sxx == ((N - 1) * N * (2 * N - 1)) \div 6
        SY == SumSeq([k \in 1..Len(filled) |-> IF k \in V THEN Y(k) ELSE 0])
        SxY == SumSeq([k \in 1..Len(filled) |-> IF k \in V THEN X(k) * Y(k) ELSE 0])
        D == N * Sxx - Sx * Sx
        A == N * SxY - Sx * SY
        B == SY * Sxx - Sx * SxY
    IN Ratio(Y(i) * D - A * X(i) - B, L * D)

\* df_clean.loc[vals.index, col] = vals - trend
DetrendOut(lead, raw, filled) ==
    [i \in 1..Len(filled) |->
        IF IsNaN(filled[i]) THEN raw[i] ELSE DetrendAt(lead, filled, i)]

\* line 72: df_filled = df_clean.interpolate(method='linear', limit=5)
InterpolateAxis ==
    /\ rPc = "start"
    /\ rFilled' = Filled(rLead, rIn, InterpLimit)
    /\ rPc' = "filled"
    /\ UNCHANGED <<rIn, rLead, rOut, rPath>>
    /\ UNCHANGED <<scorerVars, validatorVars, extVars>>

\* lines 78-90: the decomposition succeeds, the residuals are re-indexed
DecomposeSeasonal ==
    /\ rPc = "filled"
    /\ DecomposeFeasible(NObs(rLead, rFilled))
    /\ rOut' = SeasonalOut(rFilled)
    /\ rPath' = "seasonal"
    /\ rPc' = "done"
    /\ UNCHANGED <<rIn, rLead, rFilled>>
    /\ UNCHANGED <<scorerVars, validatorVars, extVars>>

\* lines 92-105: the decomposition raised, more than 10 samples: linear detrend
FallbackDetrend ==
    /\ rPc = "filled"
    /\ ~DecomposeFeasible(NObs(rLead, rFilled))
    /\ NObs(rLead, rFilled) > MinDetrendLen
    /\ rOut' = DetrendOut(rLead, rIn, rFilled)
    /\ rPath' = "detrended"
    /\ rPc' = "done"
    /\ UNCHANGED <<rIn, rLead, rFilled>>
    /\ UNCHANGED <<scorerVars, validatorVars, extVars>>

\* lines 92-98: the decomposition raised, 10 samples or fewer: df_clean[col]
\* is returned as it was copied from df
FallbackKeepRaw ==
    /\ rPc = "filled"
    /\ ~DecomposeFeasible(NObs(rLead, rFilled))
    /\ NObs(rLead, rFilled) <= MinDetrendLen
    /\ rOut' = rIn
    /\ rPath' = "raw"
    /\ rPc' = "done"
    /\ UNCHANGED <<rIn, rLead, rFilled>>
    /\ UNCHANGED <<scorerVars, validatorVars, extVars>>

\* The axis as loaded: any pattern of missing samples, the valid samples
\* taken from one of two value patterns.
LeadCounts == {0, MinDetrendLen, 2 * Period}
Patterns == {"line", "zigzag"}
PatternValue(p, i) == IF p = "line" THEN 3 * i ELSE (i * i) % 5
InitDecomposer ==
    /\ \E n \in 1..MaxAxisLen : \E missing \in SUBSET (1..n) : \E p \in Patterns :
          rIn = [i \in 1..n |-> IF i \in missing THEN NaN ELSE Val(PatternValue(p, i))]
    /\ rLead \in LeadCounts
    /\ rFilled = <<>>
    /\ rOut = <<>>
    /\ rPc = "start"
    /\ rPath = "none"
    /\ ScorerIdle
    /\ ValidatorIdle
    /\ ExtIdle

NextDecomposer ==
    \/ InterpolateAxis
    \/ DecomposeSeasonal
    \/ FallbackDetrend
    \/ FallbackKeepRaw

SpecDecomposer == InitDecomposer /\ [][NextDecomposer]_vars

(***************************************************************************)
(* Claims about the Decomposer (checked under SpecDecomposer)              *)
(***************************************************************************)
RIdx == 1..Len(rIn)
\* position 0 stands for the last of the leading samples
ValidAtOrLead(i) == IF i = 0 THEN rLead > 0 ELSE i \in RIdx /\ ~IsNaN(rIn[i])
ValueAtOrLead(i) == IF i = 0 THEN 0 ELSE rIn[i].n
\* the maximal runs a..b of missing samples that lie between two valid samples
GapRuns ==
    {r \in RIdx \X RIdx :
        /\ r[1] <= r[2]
        /\ \A i \in r[1]..r[2] : IsNaN(rIn[i])
        /\ ValidAtOrLead(r[1] - 1)
        /\ ValidAtOrLead(r[2] + 1)}
RunLen(r) == r[2] - r[1] + 1
\* c is the value at i of the line through the samples on both sides of run r
OnLine(c, r, i) ==
    /\ ~IsNaN(c)
    /\ c.n * (r[2] - r[1] + 2)
         = c.d * (ValueAtOrLead(r[1] - 1) * (r[2] + 1 - i)
                  + ValueAtOrLead(r[2] + 1) * (i - r[1] + 1))

\* C10 (as claimed): a run of at most 5 missing samples between valid samples
\* is filled by linear interpolation and receives a residual; every position
\* of a run of more than 5 missing samples is left unfilled and is missing in
\* the output.
C10_GapLimit ==
    rPc \in {"filled", "done"} =>
        \A r \in GapRuns : \A i \in r[1]..r[2] :
            IF RunLen(r) <= 5
            THEN /\ OnLine(rFilled[i], r, i)
                 /\ rPc = "done" => ~IsNaN(rOut[i])
            ELSE /\ IsNaN(rFilled[i])
                 /\ rPc = "done" => IsNaN(rOut[i])

\* C13 (as claimed): whenever the seasonal decomposition is infeasible, the
\* value returned at every non-missing position is the interpolated value
\* minus the degree-1 least-squares fit of the interpolated series, whatever
\* the length of the series (two samples at least, so that the fit is unique).
C13_FallbackDetrends ==
    (rPc = "done" /\ ~DecomposeFeasible(NObs(rLead, rFilled))
                  /\ NObs(rLead, rFilled) >= 2) =>
        \A i \in RIdx : ~IsNaN(rIn[i]) =>
            rOut[i] = DetrendAt(rLead, rFilled, i)

(***************************************************************************)
(* Synchronizer (src/src/preprocess.py, synchronize_and_clean)             *)
(*                                                                         *)
(* Every station's frame has one row per observed day (a gap in the        *)
(* observations is an absent date).  remove_physics runs per station over  *)
(* the three components, the result is put on the daily grid of the        *)
(* station's own date range and the stations are joined on the date.       *)
(* As for the Decomposer, an axis may be preceded by `lead` valid samples  *)
(* of value 0 on the days before day 1; the days 1..SyncDays are explicit. *)
(***************************************************************************)
SyncDays == 2
SigmaCols == {"sigmaE", "sigmaN", "sigmaU"}
FrameCols == AxisSet \cup SigmaCols

\* the dates of a frame in index order (set_index("date").sort_index())
RECURSIVE SortedDays(_)
SortedDays(S) ==
    IF S = {} THEN <<>> ELSE <<Min(S)>> \o SortedDays(S \ {Min(S)})

\* df[col] of a station: its rows on the explicit days, in date order
RowSeries(st, col) ==
    LET days == SortedDays(st.obs)
    IN [k \in 1..Len(days) |-> st.cells[days[k]][col]]

\* `except Exception` handles every exception seasonal_decompose raises
ExceptionSubclasses == {"ValueError", "KeyError", "LinAlgError"}
DecomposeError == "ValueError"
ExceptCatchesNothing(exc) == FALSE
ExceptCatches(exc) == exc \in ExceptionSubclasses

\* the branch of remove_physics an axis takes
AxisPath(lead, raw) ==
    LET nobs == NObs(lead, Filled(lead, raw, InterpLimit))
    IN IF DecomposeFeasible(nobs) THEN "seasonal"
       ELSE IF nobs > MinDetrendLen THEN "detrended"
       ELSE "raw"

\* df_clean[col] when remove_physics returns
AxisOut(lead, raw) ==
    LET filled == Filled(lead, raw, InterpLimit)
        path == AxisPath(lead, raw)
    IN IF path = "seasonal" THEN SeasonalOut(filled)
       ELSE IF path = "detrended" THEN DetrendOut(lead, raw, filled)
       ELSE raw

\* the station has rows before day 1
HasLeadRows(st) == \E a \in AxisSet : st.lead[a] > 0

\* the explicit days of the station's date range (first to last date)
RangeDays(st) ==
    {d \in 1..SyncDays :
        /\ d <= Max(st.obs)
        /\ HasLeadRows(st) \/ d >= Min(st.obs)}

\* df_resid.resample("1D").mean(): a day of the range without a row gets a
\* row of missing cells, a day with one row keeps its cells
MissingRow == [c \in FrameCols |-> NaN]
Resample(st, clean) ==
    LET days == SortedDays(st.obs)
        Rank(d) == CHOOSE k \in 1..Len(days) : days[k] = d
    IN [d \in RangeDays(st) |->
          IF d \in st.obs THEN [c \in FrameCols |-> clean[c][Rank(d)]]
          ELSE MissingRow]

\* pd.concat(processed_dfs, axis=1) with every cell of a missing date set to 0
ConcatZeroFilled(processed) ==
    LET cal == UNION {DOMAIN processed[i].frame : i \in 1..Len(processed)}
    IN [calendar |-> cal,
        cell |-> [d \in cal |->
                    [i \in 1..Len(processed) |->
                        IF d \in DOMAIN processed[i].frame
                        THEN processed[i].frame[d]
                        ELSE [c \in FrameCols |-> Val(0)]]]]

\* pd.concat(processed_dfs, axis=1): outer join on the date, in list order
Concat(processed) ==
    LET cal == UNION {DOMAIN processed[i].frame : i \in 1..Len(processed)}
    IN [calendar |-> cal,
        cell |-> [d \in cal |->
                    [i \in 1..Len(processed) |->
                        IF d \in DOMAIN processed[i].frame
                        THEN processed[i].frame[d]
                        ELSE MissingRow]]]

SyncCurrent == StationOrder[syStation]
SyncAxis == Axes[syAxis]
SyncLead == syIn[SyncCurrent].lead[SyncAxis]
SyncRaw == RowSeries(syIn[SyncCurrent], SyncAxis)
SyncInAxes == syPc = "axes" /\ syAxis <= Len(Axes)

\* lines 118-120, 68-72: the next station's frame is handed to remove_physics
CallRemovePhysics ==
    /\ syPc = "stations"
    /\ syStation <= Len(StationOrder)
    /\ syClean' = [c \in FrameCols |-> RowSeries(syIn[SyncCurrent], c)]
    /\ syAxis' = 1
    /\ syPc' = "axes"
    /\ UNCHANGED <<syIn, syStation, syLog, syReturned, syProcessed, syCombined>>
    /\ UNCHANGED <<scorerVars, validatorVars, decomposerVars, normVars, maskVars, benchVars,
                   lateVars>>

\* lines 78-90: the decomposition of the component succeeds
AxisSeasonal ==
    /\ SyncInAxes
    /\ AxisPath(SyncLead, SyncRaw) = "seasonal"
    /\ syClean' = [syClean EXCEPT ![SyncAxis] = AxisOut(SyncLead, SyncRaw)]
    /\ syAxis' = syAxis + 1
    /\ UNCHANGED <<syIn, syPc, syStation, syLog, syReturned, syProcessed, syCombined>>
    /\ UNCHANGED <<scorerVars, validatorVars, decomposerVars, normVars, maskVars, benchVars,
                   lateVars>>

\* lines 92-105: the decomposition raises with more than 10 samples; the
\* handler prints the component and subtracts the fitted line
AxisDetrend ==
    /\ SyncInAxes
    /\ AxisPath(SyncLead, SyncRaw) = "detrended"
    /\ IF ExceptCatches(DecomposeError)
       THEN /\ syLog' = Append(syLog, SyncAxis)
            /\ syClean' = [syClean EXCEPT ![SyncAxis] = AxisOut(SyncLead, SyncRaw)]
            /\ syAxis' = syAxis + 1
            /\ UNCHANGED syPc
       ELSE /\ syPc' = "raised"
            /\ UNCHANGED <<syLog, syClean, syAxis>>
    /\ UNCHANGED <<syIn, syStation, syReturned, syProcessed, syCombined>>
    /\ UNCHANGED <<scorerVars, validatorVars, decomposerVars, normVars, maskVars, benchVars,
                   lateVars>>

\* lines 92-98: the decomposition raises with 10 samples or fewer; the
\* handler prints the component and leaves df_clean[col] as copied
AxisKeepRaw ==
    /\ SyncInAxes
    /\ AxisPath(SyncLead, SyncRaw) = "raw"
    /\ IF ExceptCatches(DecomposeError)
       THEN /\ syLog' = Append(syLog, SyncAxis)
            /\ syClean' = [syClean EXCEPT ![SyncAxis] = AxisOut(SyncLead, SyncRaw)]
            /\ syAxis' = syAxis + 1
            /\ UNCHANGED syPc
       ELSE /\ syPc' = "raised"
            /\ UNCHANGED <<syLog, syClean, syAxis>>
    /\ UNCHANGED <<syIn, syStation, syReturned, syProcessed, syCombined>>
    /\ UNCHANGED <<scorerVars, validatorVars, decomposerVars, normVars, maskVars, benchVars,
                   lateVars>>

\* lines 107, 120-128: remove_physics returns df_clean; the frame is
\* resampled, prefixed with the station's name and appended
ReturnStation ==
    /\ syPc = "axes"
    /\ syAxis > Len(Axes)
    /\ syReturned' = [frame |-> syClean]
    /\ syProcessed' = Append(syProcessed,
           [station |-> SyncCurrent,
            frame |-> Resample(syIn[SyncCurrent], syClean)])
    /\ syStation' = syStation + 1
    /\ syPc' = "stations"
    /\ UNCHANGED <<syIn, syAxis, syClean, syLog, syCombined>>
    /\ UNCHANGED <<scorerVars, validatorVars, decomposerVars, normVars, maskVars, benchVars,
                   lateVars>>

\* lines 131-133: the outer join
ConcatFrames ==
    /\ syPc = "stations"
    /\ syStation > Len(StationOrder)
    /\ syCombined' = Concat(syProcessed)
    /\ syPc' = "done"
    /\ UNCHANGED <<syIn, syStation, syAxis, syClean, syLog, syReturned, syProcessed>>
    /\ UNCHANGED <<scorerVars, validatorVars, decomposerVars, normVars, maskVars, benchVars,
                   lateVars>>

\* The stations as loaded: any non-empty set of observed days; the same
\* number of leading samples on every component, except that the leading
\* cells of one component may be missing; the cells from fixed patterns.
LeadProfiles ==
    {[a \in AxisSet |-> IF a = bare THEN 0 ELSE k] :
        k \in LeadCounts, bare \in AxisSet \cup {"none"}}
RawCell(s, col, d) ==
    IF col \in SigmaCols THEN Val(1)
    ELSE IF col = "east" THEN Val(PatternValue("line", d))
    ELSE IF col = "north" THEN Val(PatternValue("zigzag", d))
    ELSE Val(IF s = "S1" THEN 0 - 7 * d ELSE 4)
StationFrame(s, obs, lead) ==
    [obs |-> obs, lead |-> lead,
     cells |-> [d \in obs |-> [c \in FrameCols |-> RawCell(s, c, d)]]]
InitSync ==
    /\ \E obs \in [Stations -> (SUBSET (1..SyncDays)) \ {{}}] :
       \E lead \in [Stations -> LeadProfiles] :
          syIn = [s \in Stations |-> StationFrame(s, obs[s], lead[s])]
    /\ syPc = "stations"
    /\ syStation = 1
    /\ syAxis = 0
    /\ syClean = <<>>
    /\ syLog = <<>>
    /\ syReturned = <<>>
    /\ syProcessed = <<>>
    /\ syCombined = <<>>
    /\ ScorerIdle
    /\ ValidatorIdle
    /\ DecomposerIdle
    /\ NormIdle
    /\ MaskIdle
    /\ BenchIdle
    /\ LateIdle

NextSync ==
    \/ CallRemovePhysics
    \/ AxisSeasonal
    \/ AxisDetrend
    \/ AxisKeepRaw
    \/ ReturnStation
    \/ ConcatFrames

SpecSync == InitSync /\ [][NextSync]_vars

(***************************************************************************)
(* Claims about the Synchronizer (checked under SpecSync)                  *)
(***************************************************************************)
\* the component of the station takes the except branch
Degraded(s, a) ==
    AxisPath(syIn[s].lead[a], RowSeries(syIn[s], a)) # "seasonal"
\* what remove_physics leaves in a column once the component was processed
ExpectedCol(s, c) ==
    IF c \in AxisSet THEN AxisOut(syIn[s].lead[c], RowSeries(syIn[s], c))
    ELSE RowSeries(syIn[s], c)
ExpectedFrame(s) == [c \in FrameCols |-> ExpectedCol(s, c)]

\* C11: when the decomposition of a component raises, the handler takes the
\* fallback branch and nothing escapes remove_physics; the components after
\* it are processed as well, and every station of the batch is processed.
C11_FallbackContained ==
    /\ syPc # "raised"
    /\ syPc = "axes" =>
          \A k \in 1..(syAxis - 1) :
              /\ syClean[Axes[k]] = ExpectedCol(SyncCurrent, Axes[k])
              /\ Degraded(SyncCurrent, Axes[k]) =>
                    \E j \in 1..Len(syLog) : syLog[j] = Axes[k]
    /\ \A i \in 1..Len(syProcessed) :
          /\ syProcessed[i].station = StationOrder[i]
          /\ syProcessed[i].frame =
                Resample(syIn[StationOrder[i]], ExpectedFrame(StationOrder[i]))
    /\ syPc = "done" => Len(syProcessed) = Len(StationOrder)
\* the first component of the first station raised, a later one and the
\* next station were decomposed, and the batch is complete
C11_Witness ==
    /\ syPc = "done"
    /\ Degraded("S1", "east")
    /\ ~Degraded("S1", "up")
    /\ ~Degraded("S2", "north")
    /\ syProcessed[1].frame[Max(syIn["S1"].obs)]["up"] = SeasonalResid
    /\ syProcessed[2].frame[Max(syIn["S2"].obs)]["north"] = SeasonalResid

\* the degraded components the caller can read off the returned value
DegradedSignals(ret) == IF "degraded" \in DOMAIN ret THEN ret.degraded ELSE {}
LastReturned == StationOrder[Len(syProcessed)]
\* C12 (as claimed): whenever a component takes the fallback, the caller of
\* remove_physics receives a signal naming the station and the component.
C12_DegradedSignalled ==
    syProcessed # <<>> =>
        \A a \in AxisSet :
            Degraded(LastReturned, a) =>
                <<LastReturned, a>> \in DegradedSignals(syReturned)

\* C14: the calendar of the combined frame is the union of the stations'
\* daily date ranges, and on every calendar day a station has no observation
\* (outside its range or in a gap of it) all its cells are missing, not zero.
C14_CalendarUnion ==
    syPc = "done" =>
        /\ syCombined.calendar = UNION {RangeDays(syIn[s]) : s \in Stations}
        /\ \A d \in syCombined.calendar : \A i \in 1..Len(StationOrder) :
              d \notin syIn[StationOrder[i]].obs =>
                  \A c \in FrameCols :
                      /\ IsNaN(syCombined.cell[d][i][c])
                      /\ syCombined.cell[d][i][c] # Val(0)
\* one station has a day before its range, the other a gap inside its range
C14_Witness ==
    /\ syPc = "done"
    /\ 1 \in syCombined.calendar
    /\ 1 \notin RangeDays(syIn["S1"])
    /\ 1 \in RangeDays(syIn["S2"]) \ syIn["S2"].obs
    /\ IsNaN(syCombined.cell[1][1]["up"])
    /\ IsNaN(syCombined.cell[1][2]["sigmaU"])
    /\ ~IsNaN(syCombined.cell[2][1]["up"])

(***************************************************************************)
(* Normalizer (src/src/preprocess.py, preprocess_all)                      *)
(*                                                                         *)
(* A number n stands for the value n * 0.00001 of a column, in the unit    *)
(* of that column (metres before the conversion, millimetres after it).   *)
(* A standardized value z is kept exactly as its sign and its square.      *)
(***************************************************************************)
NormDays == 2
MMFactor == 1000       \* combined[cols_to_scale] * 1000.0

StationIndex(s) == CHOOSE i \in 1..Len(StationOrder) : StationOrder[i] = s

\* df_clean as remove_physics returns it for a station
CleanFrame(st) ==
    [c \in FrameCols |->
        IF c \in AxisSet THEN AxisOut(st.lead[c], RowSeries(st, c))
        ELSE RowSeries(st, c)]

\* processed_dfs after the loop of synchronize_and_clean
ProcessedOf(in) ==
    [i \in 1..Len(StationOrder) |->
        [station |-> StationOrder[i],
         frame |-> Resample(in[StationOrder[i]], CleanFrame(in[StationOrder[i]]))]]

\* synchronize_and_clean(station_data), the columns grouped by station
CombinedOf(in) ==
    LET joined == Concat(ProcessedOf(in))
    IN [calendar |-> joined.calendar,
        cell |-> [d \in joined.calendar |->
                    [s \in Stations |-> joined.cell[d][StationIndex(s)]]]]

\* cols_to_scale / data_cols: the columns without "sigma" in their name
IsSigmaName(c) == c \in SigmaCols
ScaleCell(c) == IF IsNaN(c) THEN c ELSE Ratio(c.n * MMFactor, c.d)
\* combined[cols_to_scale] = combined[cols_to_scale] * 1000.0
ScaleUnits(comb) ==
    [calendar |-> comb.calendar,
     cell |-> [d \in comb.calendar |-> [s \in Stations |->
                 [c \in FrameCols |->
                     IF IsSigmaName(c) THEN comb.cell[d][s][c]
                     ELSE ScaleCell(comb.cell[d][s][c])]]]]

\* combined.fillna(0), and the same with the fill left out
FillNaKeep(c) == c
FillNa(c) == IF IsNaN(c) THEN Val(0) ELSE c

Sign(x) == IF x > 0 THEN 1 ELSE IF x < 0 THEN 0 - 1 ELSE 0
ZValue(sgn, num, den) ==
    LET g == GCD(num, den)
    IN [na |-> FALSE, sgn |-> sgn, sqn |-> num \div g, sqd |-> den \div g]

\* StandardScaler().fit_transform on one column (a sequence of cells):
\* z = (x - mean) / std with the population std over the non-missing cells,
\* std replaced by 1 when it is 0; a missing cell stays missing.
Standardize(col) ==
    LET L == LcmDen(col)
        V == {k \in 1..Len(col) : ~IsNaN(col[k])}
        X(k) == col[k].n * (L \div col[k].d)
        N == Cardinality(V)
        S == SumSeq([k \in 1..Len(col) |-> IF k \in V THEN X(k) ELSE 0])
        Q == SumSeq([k \in 1..Len(col) |-> IF k \in V THEN X(k) * X(k) ELSE 0])
        VarN == N * Q - S * S
        Dev(k) == N * X(k) - S
    IN [k \in 1..Len(col) |->
          IF k \notin V THEN NaN
          ELSE IF VarN = 0 THEN ZValue(0, 0, 1)
          ELSE ZValue(Sign(Dev(k)), Dev(k) * Dev(k), VarN)]

\* norm_df: scaler.fit_transform(combined_filled[data_cols])
NormalizeFrame(comb) ==
    LET days == SortedDays(comb.calendar)
        Column(s, a) == [k \in 1..Len(days) |-> FillNa(comb.cell[days[k]][s][a])]
        Rank(d) == CHOOSE k \in 1..Len(days) : days[k] = d
    IN [d \in comb.calendar |-> [s \in Stations |-> [a \in AxisSet |->
           Standardize(Column(s, a))[Rank(d)]]]]

\* column names of final_df
SigmaCol(s, c) == <<s, c, "sigma">>
PhysCol(s, c) == IF c \in AxisSet THEN MMCol(s, c) ELSE SigmaCol(s, c)
PhysCols == {PhysCol(s, c) : s \in Stations, c \in FrameCols}
NormColsOf(cols) == {<<c[1], c[2], "norm">> : c \in {x \in cols : x[3] = "mm"}}

\* final_df = pd.concat([combined, norm_df], axis=1)
FinalFrame(comb, norm) ==
    [written |-> TRUE,
     calendar |-> comb.calendar,
     cols |-> PhysCols \cup NormColsOf(PhysCols),
     cell |-> [d \in comb.calendar |->
                 [c \in PhysCols \cup NormColsOf(PhysCols) |->
                     IF c[3] = "norm" THEN norm[d][c[1]][c[2]]
                     ELSE comb.cell[d][c[1]][c[2]]]]]

\* line 144: combined = synchronize_and_clean(station_data)
Synchronize ==
    /\ nPc = "start"
    /\ nCombined' = CombinedOf(nIn)
    /\ nPc' = "synced"
    /\ UNCHANGED <<nIn, nNorm, nFile>>
    /\ UNCHANGED <<scorerVars, validatorVars, decomposerVars, syncVars, maskVars, benchVars,
                   lateVars>>

\* lines 149-150: metres to millimetres
ConvertUnits ==
    /\ nPc = "synced"
    /\ nCombined' = ScaleUnits(nCombined)
    /\ nPc' = "mm"
    /\ UNCHANGED <<nIn, nNorm, nFile>>
    /\ UNCHANGED <<scorerVars, validatorVars, decomposerVars, syncVars, maskVars, benchVars,
                   lateVars>>

\* lines 156-172: zero fill and z-score into norm_df
Normalize ==
    /\ nPc = "mm"
    /\ nNorm' = NormalizeFrame(nCombined)
    /\ nPc' = "normalized"
    /\ UNCHANGED <<nIn, nCombined, nFile>>
    /\ UNCHANGED <<scorerVars, validatorVars, decomposerVars, syncVars, maskVars, benchVars,
                   lateVars>>

\* lines 175-179: final_df is joined and written
WriteModelInput ==
    /\ nPc = "normalized"
    /\ nFile' = FinalFrame(nCombined, nNorm)
    /\ nPc' = "written"
    /\ UNCHANGED <<nIn, nCombined, nNorm>>
    /\ UNCHANGED <<scorerVars, validatorVars, decomposerVars, syncVars, maskVars, benchVars,
                   lateVars>>

\* The stations as loaded: any non-empty set of observed days, values of a
\* fixed pattern times the station's level, the up cell of the first row
\* possibly blank.
Levels == {1, 2}
NormCell(s, col, d, level, blank, first) ==
    IF col \in SigmaCols THEN Val(level)
    ELSE IF col = "up" /\ blank /\ d = first THEN NaN
    ELSE IF col = "east" THEN Val(level * d)
    ELSE IF col = "north" THEN Val(0 - level)
    ELSE Val(IF s = "S1" THEN 2 * d - 3 ELSE level + d)
NormStation(s, obs, level, blank) ==
    [obs |-> obs, lead |-> [a \in AxisSet |-> 0],
     cells |-> [d \in obs |-> [c \in FrameCols |->
                  NormCell(s, c, d, level, blank, Min(obs))]]]
NormStationInputs(s) ==
    {NormStation(s, obs, level, blank) :
        obs \in (SUBSET (1..NormDays)) \ {{}}, level \in Levels, blank \in BOOLEAN}
InitNormalize ==
    /\ nIn \in [Stations -> UNION {NormStationInputs(s) : s \in Stations}]
    /\ \A s \in Stations : nIn[s] \in NormStationInputs(s)
    /\ nPc = "start"
    /\ nCombined = <<>>
    /\ nNorm = <<>>
    /\ nFile = [written |-> FALSE]
    /\ ScorerIdle
    /\ ValidatorIdle
    /\ DecomposerIdle
    /\ SyncIdle
    /\ MaskIdle
    /\ BenchIdle
    /\ LateIdle

NextNormalize ==
    \/ Synchronize
    \/ ConvertUnits
    \/ Normalize
    \/ WriteModelInput

SpecNormalize == InitNormalize /\ [][NextNormalize]_vars

(***************************************************************************)
(* Claims about the Normalizer (checked under SpecNormalize)               *)
(***************************************************************************)
\* X_train of a station (detect_anomalies.py lines 79-86): the rows of its
\* three _norm columns on its active days, in date order
TrainFeatures(comb, norm, s) ==
    LET mm == [t \in Stations |-> [d \in comb.calendar |-> comb.cell[d][t]]]
        act == SortedDays({d \in comb.calendar : Magnitude(mm, s, d) > ActivityEps})
    IN [k \in 1..Len(act) |-> [a \in AxisSet |-> norm[act[k]][s][a]]]
\* the same for a pipeline run on the stations `in`
TrainFeaturesOf(in, s) ==
    LET comb == ScaleUnits(CombinedOf(in))
    IN TrainFeatures(comb, NormalizeFrame(comb), s)
\* the inputs that agree with `in` on station s
AgreeingInputs(in, s) ==
    {alt \in [Stations -> UNION {NormStationInputs(t) : t \in Stations}] :
        /\ \A t \in Stations : alt[t] \in NormStationInputs(t)
        /\ alt[s] = in[s]}

\* C15 (as claimed): for two pipeline inputs that agree on the series of a
\* station and differ only in the other stations' data (values or date
\* ranges), the normalized feature vectors the station's model is fitted on
\* are the same.
C15_StationIndependence ==
    nPc = "normalized" =>
        \A s \in Stations : \A alt \in AgreeingInputs(nIn, s) :
            TrainFeaturesOf(alt, s) = TrainFeatures(nCombined, nNorm, s)

\* C16: the standardized values are written only to new <column>_norm
\* columns; every physical column is kept, its value changed by the factor
\* 1000 only (sigma columns unchanged); every normalized cell is defined on
\* every calendar day.
C16_NormColumnsOnly ==
    nPc = "written" =>
        LET synced == CombinedOf(nIn)
            NormNames == {NormCol(s, a) : s \in Stations, a \in AxisSet}
        IN /\ nFile.calendar = synced.calendar
           /\ nFile.cols = PhysCols \cup NormNames
           /\ PhysCols \cap NormNames = {}
           /\ \A d \in nFile.calendar : \A s \in Stations :
                /\ \A c \in FrameCols :
                     LET was == synced.cell[d][s][c]
                         now == nFile.cell[d][PhysCol(s, c)]
                     IN IF IsNaN(was) \/ c \in SigmaCols THEN now = was
                        ELSE /\ ~IsNaN(now)
                             /\ DOMAIN now = {"na", "n", "d"}
                             /\ now.n * was.d = MMFactor * was.n * now.d
                /\ \A a \in AxisSet :
                     /\ ~IsNaN(nFile.cell[d][NormCol(s, a)])
                     /\ "sgn" \in DOMAIN nFile.cell[d][NormCol(s, a)]
\* a day S1 has no observation on: its physical cells are missing, its
\* normalized cells defined; S2's east value is scaled and standardized
C16_Witness ==
    /\ nPc = "written"
    /\ 2 \in nFile.calendar
    /\ 2 \notin nIn["S1"].obs
    /\ IsNaN(nFile.cell[2][MMCol("S1", "east")])
    /\ nFile.cell[2][NormCol("S1", "east")].sgn = 0 - 1
    /\ nFile.cell[2][MMCol("S2", "east")] = Val(2 * MMFactor)
    /\ nFile.cell[2][NormCol("S2", "east")].sgn = 1
    /\ nFile.cell[2][SigmaCol("S2", "sigmaE")] = Val(1)

(***************************************************************************)
(* ActivityMask (src/src/detect_anomalies.py, lines 79-83) as a function   *)
(* of the cells of one day: day 1 of a station carries any three cells,    *)
(* its other days have no observation.                                     *)
(***************************************************************************)
MaskStation == "S1"
MaskValues == {0 - 11, 0 - 4, 0, 4, ActivityEps, 11}
MaskCells == {NaN} \cup {Val(x) : x \in MaskValues}
MaskFrame(cells) ==
    [s \in {MaskStation} |->
        [d \in Days |-> IF d = 1 THEN cells ELSE DayCells("absent")]]

\* lines 80-83: magnitude and active_mask
ComputeMask ==
    /\ mPc = "start"
    /\ mActive' = ActiveMask(MaskFrame(mCells), MaskStation)
    /\ mPc' = "done"
    /\ UNCHANGED mCells
    /\ UNCHANGED <<scorerVars, validatorVars, decomposerVars, syncVars, normVars, benchVars,
                   lateVars>>

InitMask ==
    /\ mCells \in [AxisSet -> MaskCells]
    /\ mActive = <<>>
    /\ mPc = "start"
    /\ ScorerIdle
    /\ ValidatorIdle
    /\ DecomposerIdle
    /\ SyncIdle
    /\ NormIdle
    /\ BenchIdle
    /\ LateIdle

NextMask ==
    \/ ComputeMask

SpecMask == InitMask /\ [][NextMask]_vars

\* the contribution of one cell to the magnitude: 0 when missing
AbsOrZero(c) == IF IsNaN(c) THEN 0 ELSE IF c.n < 0 THEN 0 - c.n ELSE c.n

C18_ReadOnlyAudit ==
    [][/\ vAi' = vAi
       /\ vUp' = vUp
       /\ anomaly' = anomaly
       /\ resultsFile' = resultsFile
       /\ models' = models]_vars
\* the report is written for a station on which the MAD test disagreed with
\* a label, and the label is still there
C18_Witness ==
    /\ vPc = "done"
    /\ vSummary # <<>>
    /\ \E i \in 1..Len(vAi) : vStatus[i] = "AI_ONLY" /\ vAi[i] = 0 - 1

(***************************************************************************)
(* Synthetic Benchmark (src/src/benchmark_synthetic.py), one trial of      *)
(* calculate_recall_only.                                                  *)
(*                                                                         *)
(* Days are 0..L-1 as with .iloc.  The random parts of the signal (the     *)
(* Gaussian noise and the noise burst) are not given values: the model     *)
(* keeps what inject_anomalies adds deterministically, in tenths of a      *)
(* millimetre, and where it adds the burst.  IsolationForest.fit_predict  *)
(* is any labelling with no more outliers than its contamination           *)
(* threshold admits: the threshold is the `contamination` percentile of    *)
(* the scores of the n samples, and a sample is an outlier when its score  *)
(* is below it, which at most floor(contamination * (n - 1)) + 1 samples   *)
(* are.                                                                    *)
(***************************************************************************)
MaxBenchLen == 125
DAYS == 365 * 4                 \* DAYS
StepOffset == 150               \* += 15.0
StepFlagLen == 3                \* t1:t1+3
RampDuration == 60              \* duration
NoiseDuration == 20             \* duration_noise
ContaminationPct == 5           \* contamination=0.05
SlopeGrid == {1, 3, 5, 8, 10, 15, 20, 25, 30}   \* slopes
BenchLengths == (1..MaxBenchLen) \cup {DAYS}

\* int(L * 0.25), int(L * 0.50), int(L * 0.75)
StepOnset(L) == L \div 4
RampOnset(L) == L \div 2
NoiseOnset(L) == (3 * L) \div 4

\* the positions of data.iloc[a:b] in a frame of L rows
Slice(a, b, L) == {i \in 0..(L - 1) : a <= i /\ i < b}

\* the STEP flags set on the whole of the slice the offset is added to
StepFlagToEnd(L) == Slice(StepOnset(L), L, L)
\* data.iloc[t1:t1+3, anom_col] = 1
StepFlagSlice(L) == Slice(StepOnset(L), StepOnset(L) + StepFlagLen, L)
RampSlice(L) == Slice(RampOnset(L), RampOnset(L) + RampDuration, L)
NoiseSlice(L) == Slice(NoiseOnset(L), NoiseOnset(L) + NoiseDuration, L)

\* `+=` of an array of `duration` values onto a slice of another length
\* raises ValueError
InjectFails(L) ==
    \/ Cardinality(RampSlice(L)) # RampDuration
    \/ Cardinality(NoiseSlice(L)) # NoiseDuration

\* generate_clean_signal: is_anomaly 0 on every day, nothing added
CleanData(L) ==
    [i \in 0..(L - 1) |-> [flag |-> 0, step |-> 0, ramp |-> 0, burst |-> FALSE]]

\* inject_anomalies(df, ramp_slope) when no assignment raises
InjectedData(data, L, slope) ==
    LET flagged == StepFlagSlice(L) \cup RampSlice(L) \cup NoiseSlice(L)
        stepped == Slice(StepOnset(L), L, L)
        ramped == RampSlice(L)
        noised == NoiseSlice(L)
        t2 == RampOnset(L)
    IN [i \in 0..(L - 1) |->
        [flag |-> IF i \in flagged THEN 1 ELSE data[i].flag,
         step |-> IF i \in stepped
                  THEN data[i].step + StepOffset ELSE data[i].step,
         ramp |-> IF i \in ramped
                  THEN data[i].ramp + (i - t2) * slope ELSE data[i].ramp,
         burst |-> (i \in noised) \/ data[i].burst]]

\* df_dirty['is_anomaly'].sum()
TruthCount(data) == Cardinality({i \in DOMAIN data : data[i].flag = 1})

\* the most samples fit_predict can label -1 among n
MaxOutliers(n) == ((n - 1) * ContaminationPct) \div 100 + 1

\* lines 170 and 41-52: df_clean = generate_clean_signal()
GenerateClean ==
    /\ bPc = "start"
    /\ bClean' = CleanData(bLen)
    /\ bPc' = "clean"
    /\ UNCHANGED <<bLen, bSlope, bData, bOverlap, bRecall>>
    /\ UNCHANGED <<scorerVars, validatorVars, decomposerVars, syncVars, normVars, maskVars,
                   lateVars>>

\* line 181: (overlap / total) * 100 on numpy integers; a zero total gives
\* nan (0 / 0) with a RuntimeWarning, not an exception
RecallOnly(overlap, total) ==
    IF total = 0 THEN NaN ELSE Ratio(100 * overlap, total)

\* a recall left as the fraction overlap / total
RecallFraction(overlap, total) ==
    IF total > 0 THEN Ratio(overlap, total) ELSE Rat(0, 1)

\* line 150: recall = (overlap / total) * 100 if total > 0 else 0
RecallPlot(overlap, total) ==
    IF total > 0 THEN Ratio(100 * overlap, total) ELSE Rat(0, 1)

\* lines 171 and 60-88: df_dirty = inject_anomalies(df_clean, ramp_slope)
InjectAnomalies ==
    /\ bPc = "clean"
    /\ ~InjectFails(bLen)
    /\ bData' = InjectedData(bClean, bLen, bSlope)
    /\ bPc' = "injected"
    /\ UNCHANGED <<bLen, bSlope, bClean, bOverlap, bRecall>>
    /\ UNCHANGED <<scorerVars, validatorVars, decomposerVars, syncVars, normVars, maskVars,
                   lateVars>>

\* lines 77 and 85: the slice is shorter than the array added to it
InjectRaises ==
    /\ bPc = "clean"
    /\ InjectFails(bLen)
    /\ bPc' = "raised"
    /\ UNCHANGED <<bLen, bSlope, bClean, bData, bOverlap, bRecall>>
    /\ UNCHANGED <<scorerVars, validatorVars, decomposerVars, syncVars, normVars, maskVars,
                   lateVars>>

\* lines 172-180: features, fit_predict, detected, overlap
FitPredictTrial ==
    /\ bPc = "injected"
    /\ bOverlap' \in 0..Min({MaxOutliers(bLen), TruthCount(bData)})
    /\ bPc' = "predicted"
    /\ UNCHANGED <<bLen, bSlope, bClean, bData, bRecall>>
    /\ UNCHANGED <<scorerVars, validatorVars, decomposerVars, syncVars, normVars, maskVars,
                   lateVars>>

\* line 181: return (overlap / df_dirty['is_anomaly'].sum()) * 100
ReturnRecall ==
    /\ bPc = "predicted"
    /\ bRecall' = RecallOnly(bOverlap, TruthCount(bData))
    /\ bPc' = "done"
    /\ UNCHANGED <<bLen, bSlope, bClean, bData, bOverlap>>
    /\ UNCHANGED <<scorerVars, validatorVars, decomposerVars, syncVars, normVars, maskVars,
                   lateVars>>

\* lines 148-154: run_single_simulation_and_plot runs the same trial (lines
\* 135-145 are lines 170-179) and puts its recall into the figure's title
PlotRecall ==
    /\ bPc = "predicted"
    /\ bRecall' = RecallPlot(bOverlap, TruthCount(bData))
    /\ bPc' = "plotted"
    /\ UNCHANGED <<bLen, bSlope, bClean, bData, bOverlap>>
    /\ UNCHANGED <<scorerVars, validatorVars, decomposerVars, syncVars, normVars, maskVars,
                   lateVars>>

InitBenchmark ==
    /\ bLen \in BenchLengths
    /\ bSlope \in SlopeGrid
    /\ bClean = <<>>
    /\ bData = <<>>
    /\ bPc = "start"
    /\ bOverlap = 0
    /\ bRecall = <<>>
    /\ ScorerIdle
    /\ ValidatorIdle
    /\ DecomposerIdle
    /\ SyncIdle
    /\ NormIdle
    /\ MaskIdle
    /\ LateIdle

NextBenchmark ==
    \/ GenerateClean
    \/ InjectAnomalies
    \/ InjectRaises
    \/ FitPredictTrial
    \/ ReturnRecall
    \/ PlotRecall

SpecBenchmark == InitBenchmark /\ [][NextBenchmark]_vars

(***************************************************************************)
(* Claims about the Synthetic Benchmark (checked under SpecBenchmark)      *)
(***************************************************************************)
\* whatever fit_predict returns, the recall of a 1460-day trial is at most
\* 100 * 73 / 83: 83 days are flagged and at most 73 can be detected
RecallCeiling ==
    (bPc = "done" /\ bLen = DAYS) =>
        /\ TruthCount(bData) = 83
        /\ bRecall.n * 83 <= 7300 * bRecall.d

\* C19 (as claimed): for the 1460-day series with a RAMP of slope 2.5 mm/day
\* over 60 days from day 730, the recall returned by calculate_recall_only
\* (contamination 0.05) is at least 90 percent.
C19_RecallAtLeast90 ==
    (bPc = "done" /\ bLen = DAYS /\ bSlope = 25) =>
        /\ \A i \in 730..789 : bData[i].flag = 1 /\ bData[i].ramp = (i - 730) * 25
        /\ bRecall.n >= 90 * bRecall.d

\* C20: after inject_anomalies on a series of L days with all flags 0, the
\* flag is 1 exactly on the 3 days from int(0.25*L), the 60 days from
\* int(0.50*L) and the 20 days from int(0.75*L), and 0 on every other day;
\* the STEP offset is added to every day from its onset to the last day.
C20_GroundTruthWindows ==
    bPc = "injected" =>
        LET t1 == bLen \div 4
            t2 == bLen \div 2
            t3 == (3 * bLen) \div 4
            Marked == (t1..(t1 + 2)) \cup (t2..(t2 + 59)) \cup (t3..(t3 + 19))
        IN /\ DOMAIN bData = 0..(bLen - 1)
           /\ Marked \subseteq DOMAIN bData
           /\ \A i \in DOMAIN bData :
                /\ bData[i].flag = (IF i \in Marked THEN 1 ELSE 0)
                /\ bData[i].step = (IF i >= t1 THEN StepOffset ELSE 0)
\* the configured series: the three windows are apart, the offset persists
\* after the flagged onset
C20_Witness ==
    /\ bPc = "injected"
    /\ bLen = DAYS
    /\ bData[365].flag = 1 /\ bData[367].flag = 1 /\ bData[368].flag = 0
    /\ bData[368].step = StepOffset /\ bData[1459].step = StepOffset
    /\ bData[730].flag = 1 /\ bData[789].flag = 1 /\ bData[790].flag = 0
    /\ bData[1095].flag = 1 /\ bData[1114].flag = 1 /\ bData[1115].flag = 0
    /\ bData[364].flag = 0 /\ bData[364].step = 0

\* C24 (as claimed): for every series length L >= 1 inject_anomalies returns
\* without raising, its result has the length and the index of its input, and
\* the input frame is left as generate_clean_signal built it.
C24_InjectCompletes ==
    /\ bPc # "raised"
    /\ bPc \in {"injected", "predicted", "done", "plotted"} =>
        /\ DOMAIN bData = DOMAIN bClean
        /\ bClean = CleanData(bLen)

\* C25: for the same ground truth and detections the recall of
\* run_single_simulation_and_plot (line 150) and the one of
\* calculate_recall_only (line 181) are the same value
\* 100 * overlap / total, between 0 and 100, and total is at least 1 in every
\* trial inject_anomalies returned, so line 181 never divides by zero.
C25_RecallsAgree ==
    bPc \in {"done", "plotted"} =>
        LET total == TruthCount(bData)
        IN /\ total >= 1
           /\ RecallOnly(bOverlap, total) = RecallPlot(bOverlap, total)
           /\ bRecall.na = FALSE
           /\ bRecall.n * total = 100 * bOverlap * bRecall.d
           /\ 0 <= bRecall.n /\ bRecall.n <= 100 * bRecall.d
\* a plotted trial of the configured length with some, not all, flagged
\* days detected
C25_Witness ==
    /\ bPc = "plotted"
    /\ bLen = DAYS
    /\ bOverlap = 40
    /\ bRecall = Rat(4000, 83)

(***************************************************************************)
(* Sensitivity sweep: run_sensitivity_analysis (benchmark_synthetic.py     *)
(* lines 184-218). Every slope of the grid gets its own trial              *)
(* (calculate_recall_only): a new series from generate_clean_signal, whose *)
(* noise comes from the unseeded global generator (line 46), and a new     *)
(* fit. The detections of a trial are drawn from a sample of what          *)
(* fit_predict may return for a series of DAYS days.                       *)
(***************************************************************************)
OverlapStep == 72

\* line 187: slopes, in tenths of a millimetre per day
SweepSlopes == <<1, 3, 5, 8, 10, 15, 20, 25, 30>>

\* df_dirty['is_anomaly'].sum() of the trial run for a slope
SweepTruth(slope) ==
    LET df_clean == CleanData(DAYS)
        df_dirty == InjectedData(df_clean, DAYS, slope)
    IN TruthCount(df_dirty)

\* sampled values of overlap (line 180) after fit_predict with
\* contamination 0.05 on DAYS rows, total of which are flagged
SweepOverlaps(total) ==
    LET most == Min({MaxOutliers(DAYS), total})
    IN {k \in 0..most : k % OverlapStep = 0}

\* lines 186-188: the banner, slopes and recalls = []
StartSweep ==
    /\ wPc = "start"
    /\ wIdx' = 1
    /\ wRecalls' = <<>>
    /\ wPc' = "loop"
    /\ UNCHANGED <<scorerVars, validatorVars, decomposerVars>>
    /\ UNCHANGED <<syncVars, normVars, maskVars, benchVars, flatVars, mainVars>>

\* lines 190-193: rec = calculate_recall_only(s); recalls.append(rec)
SweepTrial ==
    /\ wPc = "loop"
    /\ wIdx <= Len(SweepSlopes)
    /\ LET total == SweepTruth(SweepSlopes[wIdx])
       IN \E overlap \in SweepOverlaps(total) :
            wRecalls' = Append(wRecalls, RecallOnly(overlap, total))
    /\ wIdx' = wIdx + 1
    /\ UNCHANGED wPc
    /\ UNCHANGED <<scorerVars, validatorVars, decomposerVars>>
    /\ UNCHANGED <<syncVars, normVars, maskVars, benchVars, flatVars, mainVars>>

\* lines 195-218: the curve recalls against slopes is drawn and saved
PlotCurve ==
    /\ wPc = "loop"
    /\ wIdx > Len(SweepSlopes)
    /\ wPc' = "plotted"
    /\ UNCHANGED <<wIdx, wRecalls>>
    /\ UNCHANGED <<scorerVars, validatorVars, decomposerVars>>
    /\ UNCHANGED <<syncVars, normVars, maskVars, benchVars, flatVars, mainVars>>

InitSweep ==
    /\ wIdx = 0
    /\ wRecalls = <<>>
    /\ wPc = "start"
    /\ ScorerIdle
    /\ ValidatorIdle
    /\ DecomposerIdle
    /\ SyncIdle
    /\ NormIdle
    /\ MaskIdle
    /\ BenchIdle
    /\ FlatIdle
    /\ MainIdle

NextSweep ==
    \/ StartSweep
    \/ SweepTrial
    \/ PlotCurve

SpecSweep == InitSweep /\ [][NextSweep]_vars

(***************************************************************************)
(* Claims about the sensitivity sweep (checked under SpecSweep)            *)
(***************************************************************************)
\* recall a is not lower than recall b
RecallGeq(a, b) == a.n * b.d >= b.n * a.d

\* C21 (as claimed): in the curve of run_sensitivity_analysis there is a
\* calibration floor among the slopes of the grid such that, for every pair
\* of slopes s1 < s2 at or above it, the recall reported for s2 is not lower
\* than the recall reported for s1.
C21_CurveMonotone ==
    wPc = "plotted" =>
        \E floor \in 1..(Len(SweepSlopes) - 1) :
            \A i, j \in floor..Len(SweepSlopes) :
                i < j => RecallGeq(wRecalls[j], wRecalls[i])

(***************************************************************************)
(* End to end: preprocess_all, detect_anomalies_per_station and            *)
(* verify_results run one after the other (main.py lines 47, 52, 64) on a  *)
(* batch whose first station is flat: every axis of it holds one value on  *)
(* all of its rows. The file handed from stage to stage is the state.      *)
(* Arithmetic is exact.                                                    *)
(***************************************************************************)
FlatDays == 11
FlatStation == "S1"
OtherStation == "S2"
FlatValues == {0, 1}

\* main.py line 52: contamination=0.004, in thousandths
MainContamination == 4

\* the flat station: n rows from day 1 (day 2 absent when `hole`), k rows of
\* zeros before them, every axis at its own constant
FlatFrame(n, hole, vals, k) ==
    LET obs == IF hole THEN (1..n) \ {2} ELSE 1..n
    IN [obs |-> obs, lead |-> [a \in AxisSet |-> k],
        cells |-> [d \in obs |-> [c \in FrameCols |->
                     IF c \in SigmaCols THEN Val(1) ELSE Val(vals[c])]]]
FlatInputs ==
    {FlatFrame(n, hole, vals, k) :
        n \in 1..FlatDays, hole \in BOOLEAN,
        vals \in [AxisSet -> FlatValues], k \in LeadCounts}
IsFlatInput(st) ==
    /\ st.obs # {}
    /\ \A a \in AxisSet : st.lead[a] > 0 => \A d \in st.obs : st.cells[d][a] = Val(0)

\* the other station: a short series that moves, its up cell possibly blank
OtherSpans == {{1}, {1, 2, 3}, {2, 3, 4, 5}}
OtherFrame(obs, blank) ==
    [obs |-> obs, lead |-> [a \in AxisSet |-> 0],
     cells |-> [d \in obs |-> [c \in FrameCols |->
                  IF c \in SigmaCols THEN Val(1)
                  ELSE IF c = "up" /\ blank /\ d = Min(obs) THEN NaN
                  ELSE IF c = "east" THEN Val(d % 2)
                  ELSE IF c = "north" THEN Val(0 - 1)
                  ELSE Val(IF d = Min(obs) THEN 1 ELSE 0)]]]
OtherInputs == {OtherFrame(obs, blank) : obs \in OtherSpans, blank \in BOOLEAN}

\* preprocess_all lines 144-179: the frame written to gnss_model_input.csv
ModelInputOf(in) ==
    LET comb == ScaleUnits(CombinedOf(in))
    IN FinalFrame(comb, NormalizeFrame(comb))

\* detect_anomalies.py lines 79-83: the days of active_mask in the file
FileActive(file, s) ==
    LET mm == [t \in Stations |-> [d \in file.calendar |->
                 [a \in AxisSet |-> file.cell[d][MMCol(t, a)]]]]
    IN {d \in file.calendar : Magnitude(mm, s, d) > ActivityEps}

\* lines 76 and 86: X_train = station_data[active_mask], in date order
FileXTrain(file, s) ==
    LET act == SortedDays(FileActive(file, s))
    IN [k \in 1..Len(act) |-> [a \in AxisSet |-> file.cell[act[k]][NormCol(s, a)]]]

\* upper bound of the samples scoring below the contamination percentile
ForestMaxOutliers(n) == ((n - 1) * MainContamination) \div 1000 + 1

\* fit_predict with any label on any row
ForestAnyLabels(X) == [1..Len(X) -> {1, 0 - 1}]

\* lines 93-101: IsolationForest(contamination).fit_predict(X_train). The
\* label of a row is -1 when its score lies below the contamination
\* percentile of the scores; the score is a function of the row's features
\* (random_state fixes the forest), so equal rows get equal labels, the rows
\* of highest score are never below the percentile, and at most the
\* contamination share of the rows is.
ForestLabels(X) ==
    {p \in [1..Len(X) -> {1, 0 - 1}] :
        /\ \A i, j \in 1..Len(X) : X[i] = X[j] => p[i] = p[j]
        /\ Cardinality({i \in 1..Len(X) : p[i] = 0 - 1})
              <= Min({ForestMaxOutliers(Len(X)), Len(X) - 1})}

\* lines 53-54, 88-90 and 105: the station's label column in the results
LabelColumns(file, s) ==
    LET act == SortedDays(FileActive(file, s))
        Rank(d) == CHOOSE k \in 1..Len(act) : act[k] = d
    IN IF act = <<>>
       THEN {[d \in file.calendar |-> 1]}
       ELSE {[d \in file.calendar |-> IF d \in FileActive(file, s) THEN p[Rank(d)] ELSE 1] :
                p \in ForestLabels(FileXTrain(file, s))}

\* verify_mad.py lines 76-87: mad_anomalies of the station's up column
MadFlags(file, s) ==
    LET days == SortedDays(file.calendar)
        Rank(d) == CHOOSE k \in 1..Len(days) : days[k] = d
        series_mm == [k \in 1..Len(days) |-> file.cell[days[k]][MMCol(s, "up")]]
        mad_scores == calculate_mad_zscore(series_mm)
    IN [d \in file.calendar |-> ExceedsThreshold(mad_scores[Rank(d)])]

\* main.py line 47: preprocess_all()
FlatPreprocess ==
    /\ fPc = "start"
    /\ fFile' = ModelInputOf(fIn)
    /\ fPc' = "preprocessed"
    /\ UNCHANGED <<fIn, fLabels, fMad>>
    /\ UNCHANGED <<scorerVars, validatorVars, decomposerVars>>
    /\ UNCHANGED <<syncVars, normVars, maskVars, benchVars, sweepVars, mainVars>>

\* main.py line 52: detect_anomalies_per_station(contamination=0.004)
FlatScore ==
    /\ fPc = "preprocessed"
    /\ \E la \in LabelColumns(fFile, FlatStation) :
       \E lb \in LabelColumns(fFile, OtherStation) :
          fLabels' = [s \in Stations |-> IF s = FlatStation THEN la ELSE lb]
    /\ fPc' = "scored"
    /\ UNCHANGED <<fIn, fFile, fMad>>
    /\ UNCHANGED <<scorerVars, validatorVars, decomposerVars>>
    /\ UNCHANGED <<syncVars, normVars, maskVars, benchVars, sweepVars, mainVars>>

\* main.py line 64: verify_results()
FlatVerify ==
    /\ fPc = "scored"
    /\ fMad' = [s \in Stations |-> MadFlags(fFile, s)]
    /\ fPc' = "verified"
    /\ UNCHANGED <<fIn, fFile, fLabels>>
    /\ UNCHANGED <<scorerVars, validatorVars, decomposerVars>>
    /\ UNCHANGED <<syncVars, normVars, maskVars, benchVars, sweepVars, mainVars>>

InitFlat ==
    /\ \E flat \in FlatInputs : \E other \in OtherInputs :
          /\ IsFlatInput(flat)
          /\ fIn = [s \in Stations |-> IF s = FlatStation THEN flat ELSE other]
    /\ fPc = "start"
    /\ fFile = [written |-> FALSE]
    /\ fLabels = <<>>
    /\ fMad = <<>>
    /\ ScorerIdle
    /\ ValidatorIdle
    /\ DecomposerIdle
    /\ SyncIdle
    /\ NormIdle
    /\ MaskIdle
    /\ BenchIdle
    /\ SweepIdle
    /\ MainIdle

NextFlat ==
    \/ FlatPreprocess
    \/ FlatScore
    \/ FlatVerify

SpecFlat == InitFlat /\ [][NextFlat]_vars

C23_ScoringFrame ==
    [][/\ dfCols' = dfCols
       /\ dfMM' = dfMM
       /\ (pc = "loop" /\ idx <= Len(StationNames(dfCols))) =>
            LET S == StationNames(dfCols)[idx]
            IN \A t \in Stations \ {S} :
                 /\ t \in DOMAIN anomaly => anomaly'[t] = anomaly[t]
                 /\ trainRows'[t] = trainRows[t]
                 /\ (t \in models') = (t \in models)
       /\ \A s \in models' : trainRows'[s] = ActiveDays(dfMM', s)
       /\ (resultsFile'.written /\ ~resultsFile.written) =>
            resultsFile'.anomaly = anomaly]_vars
\* both stations fitted, on different days, with different labels, and the
\* results written
C23_Witness ==
    /\ pc = "done"
    /\ resultsFile.written
    /\ models = Stations
    /\ trainRows["S1"] # trainRows["S2"]
    /\ anomaly["S1"] # anomaly["S2"]
    /\ \E d \in Days : anomaly["S2"][d] = 0 - 1

(***************************************************************************)
(* The orchestrator: main() of main.py (lines 30-87). The stages are       *)
(* called one after the other inside one try block; a stage returns        *)
(* (early, without writing, when the file it reads is missing), raises, or *)
(* is interrupted from the keyboard. The files of data/ are the state the  *)
(* stages share.                                                           *)
(***************************************************************************)
\* lines 43-69, in call order (download_all of line 38 is commented out)
StageOrder == <<"parse", "preprocess", "score", "visualise", "map", "validate",
                "examples", "sensitivity">>

\* what a stage looks for before it works: data_loader.py 87-91,
\* preprocess.py 39-42 and 142, detect_anomalies.py 35-38, visualize.py
\* 75-77, create_map.py 138-140, verify_mad.py 54-56
StageNeeds(stage) ==
    IF stage = "parse" THEN {"raw"}
    ELSE IF stage = "preprocess" THEN {"processed"}
    ELSE IF stage = "score" THEN {"model_input"}
    ELSE IF stage \in {"visualise", "map", "validate"} THEN {"results"}
    ELSE {}

\* what a stage writes when it runs to its end
StageWrites(stage) ==
    IF stage = "parse" THEN {"processed"}
    ELSE IF stage = "preprocess" THEN {"model_input"}
    ELSE IF stage = "score" THEN {"results"}
    ELSE IF stage = "visualise" THEN {"plots"}
    ELSE IF stage = "map" THEN {"map"}
    ELSE IF stage = "validate" THEN {"report"}
    ELSE {"simulated"}

\* files a run may find in data/ from the download or from an earlier run
FoundFiles == {"raw", "processed", "model_input", "results"}

MainStageName == StageOrder[mainStage]

\* lines 43-69: the next call of the try block
CallStage ==
    /\ mainPc = "ready"
    /\ mainStage <= Len(StageOrder)
    /\ mainCalls' = Append(mainCalls, MainStageName)
    /\ mainPc' = "running"
    /\ UNCHANGED <<mainStage, mainReturned, mainRaised, mainFiles, mainBanner, mainExit>>
    /\ UNCHANGED <<scorerVars, validatorVars, decomposerVars>>
    /\ UNCHANGED <<syncVars, normVars, maskVars, benchVars, sweepVars, flatVars>>

\* the stage returns: at its early return when its input is missing, at its
\* end, with its output written, otherwise
StageReturns ==
    /\ mainPc = "running"
    /\ mainFiles' = IF StageNeeds(MainStageName) \subseteq mainFiles
                    THEN mainFiles \cup StageWrites(MainStageName)
                    ELSE mainFiles
    /\ mainReturned' = mainReturned \cup {MainStageName}
    /\ mainStage' = mainStage + 1
    /\ mainPc' = "ready"
    /\ UNCHANGED <<mainCalls, mainRaised, mainBanner, mainExit>>
    /\ UNCHANGED <<scorerVars, validatorVars, decomposerVars>>
    /\ UNCHANGED <<syncVars, normVars, maskVars, benchVars, sweepVars, flatVars>>

\* the stage got past its early return and an exception leaves it (the
\* KeyError of detect_anomalies.py line 80, a file that cannot be read or
\* written, ...); control goes to the handler of line 85
StageRaises ==
    /\ mainPc = "running"
    /\ StageNeeds(MainStageName) \subseteq mainFiles
    /\ mainRaised' = MainStageName
    /\ mainPc' = "failed"
    /\ UNCHANGED <<mainStage, mainCalls, mainReturned, mainFiles, mainBanner, mainExit>>
    /\ UNCHANGED <<scorerVars, validatorVars, decomposerVars>>
    /\ UNCHANGED <<syncVars, normVars, maskVars, benchVars, sweepVars, flatVars>>

\* Ctrl+C while the stage runs: KeyboardInterrupt, to the handler of line 82
StageInterrupted ==
    /\ mainPc = "running"
    /\ mainPc' = "interrupted"
    /\ UNCHANGED <<mainStage, mainCalls, mainReturned, mainRaised, mainFiles,
                   mainBanner, mainExit>>
    /\ UNCHANGED <<scorerVars, validatorVars, decomposerVars>>
    /\ UNCHANGED <<syncVars, normVars, maskVars, benchVars, sweepVars, flatVars>>

\* lines 72-80: every call returned, the success banner, main returns
PrintSuccess ==
    /\ mainPc = "ready"
    /\ mainStage > Len(StageOrder)
    /\ mainBanner' = TRUE
    /\ mainExit' = "status0"
    /\ mainPc' = "exited"
    /\ UNCHANGED <<mainStage, mainCalls, mainReturned, mainRaised, mainFiles>>
    /\ UNCHANGED <<scorerVars, validatorVars, decomposerVars>>
    /\ UNCHANGED <<syncVars, normVars, maskVars, benchVars, sweepVars, flatVars>>

\* the handler of line 85 leaving with the status of a finished run
ExitFailureAsSuccess ==
    /\ mainPc = "failed"
    /\ mainExit' = "status0"
    /\ mainPc' = "exited"
    /\ UNCHANGED <<mainStage, mainCalls, mainReturned, mainRaised, mainFiles, mainBanner>>
    /\ UNCHANGED <<scorerVars, validatorVars, decomposerVars>>
    /\ UNCHANGED <<syncVars, normVars, maskVars, benchVars, sweepVars, flatVars>>

\* lines 85-87: except Exception: the error is printed, sys.exit(1)
ExitFailure ==
    /\ mainPc = "failed"
    /\ mainExit' = "status1"
    /\ mainPc' = "exited"
    /\ UNCHANGED <<mainStage, mainCalls, mainReturned, mainRaised, mainFiles, mainBanner>>
    /\ UNCHANGED <<scorerVars, validatorVars, decomposerVars>>
    /\ UNCHANGED <<syncVars, normVars, maskVars, benchVars, sweepVars, flatVars>>

\* lines 82-84: except KeyboardInterrupt: a notice is printed, sys.exit(0)
ExitInterrupted ==
    /\ mainPc = "interrupted"
    /\ mainExit' = "status0"
    /\ mainPc' = "exited"
    /\ UNCHANGED <<mainStage, mainCalls, mainReturned, mainRaised, mainFiles, mainBanner>>
    /\ UNCHANGED <<scorerVars, validatorVars, decomposerVars>>
    /\ UNCHANGED <<syncVars, normVars, maskVars, benchVars, sweepVars, flatVars>>

InitMain ==
    /\ mainPc = "ready"
    /\ mainStage = 1
    /\ mainCalls = <<>>
    /\ mainReturned = {}
    /\ mainRaised = ""
    /\ mainFiles \in SUBSET FoundFiles
    /\ mainBanner = FALSE
    /\ mainExit = "none"
    /\ ScorerIdle
    /\ ValidatorIdle
    /\ DecomposerIdle
    /\ SyncIdle
    /\ NormIdle
    /\ MaskIdle
    /\ BenchIdle
    /\ SweepIdle
    /\ FlatIdle

NextMain ==
    \/ CallStage
    \/ StageReturns
    \/ StageRaises
    \/ StageInterrupted
    \/ PrintSuccess
    \/ ExitFailure
    \/ ExitInterrupted

SpecMain == InitMain /\ [][NextMain]_vars

\* the handlers are the next statements of a sequential program: once an
\* exception is in flight the except clause runs
SpecMainLive ==
    /\ SpecMain
    /\ WF_vars(ExitFailure)
    /\ WF_vars(ExitInterrupted)

(***************************************************************************)
(* Claims about the orchestrator (checked under SpecMainLive)              *)
(***************************************************************************)
\* the stages called so far are the first ones of the order, in the order
CallsArePrefix ==
    /\ Len(mainCalls) <= Len(StageOrder)
    /\ \A i \in 1..Len(mainCalls) : mainCalls[i] = StageOrder[i]

\* position of a stage in the order
StagePos(stage) == CHOOSE i \in 1..Len(StageOrder) : StageOrder[i] = stage

\* C26: main calls the stages in the order parse, preprocess, score,
\* visualise, map, validate, benchmark (examples, then sensitivity), each
\* only after every stage before it returned; validate is never called
\* before score returned; once a stage raised no further stage is called and
\* the process exits, with status 1; the success banner is printed only when
\* no stage raised (and none was interrupted: all of them returned).
C26_StagesInOrder ==
    /\ [](/\ CallsArePrefix
          /\ "validate" \in {mainCalls[i] : i \in 1..Len(mainCalls)} =>
                "score" \in mainReturned
          /\ mainBanner =>
                /\ mainRaised = ""
                /\ mainReturned = {StageOrder[i] : i \in 1..Len(StageOrder)}
          /\ (mainRaised # "" /\ mainPc = "exited") => mainExit = "status1"
          /\ mainExit = "status1" => mainRaised # "")
    /\ [][mainCalls' # mainCalls =>
            /\ mainRaised = ""
            /\ mainPc' = "running"
            /\ \A i \in 1..Len(mainCalls) : mainCalls[i] \in mainReturned
            /\ \A s \in mainReturned : StagePos(s) <= Len(mainCalls)]_vars
    /\ (mainRaised # "") ~> (mainExit = "status1")
\* the Scorer raised after parse and preprocess returned: no stage after it
\* was called, no banner, status 1
C26_Witness ==
    /\ mainPc = "exited"
    /\ mainRaised = "score"
    /\ mainCalls = <<"parse", "preprocess", "score">>
    /\ mainReturned = {"parse", "preprocess"}
    /\ ~mainBanner
    /\ mainExit = "status1"

====
